---- MODULE Spec2Model ----
(***************************************************************************)
(* Timesheet reconciliation: the key/signature builder, the hours/status   *)
(* rule, the store formatting, process_timesheet_changes, the pipeline     *)
(* process_timesheets and the SQL deduplication, as state machines over    *)
(* the table employees_check.unioned_table.                                *)
(*                                                                         *)
(* Values.  A cell of a DataFrame or of the table is a record              *)
(*   [k, s, n]:  k = "null"  pd.NA / NaN / NaT / None / SQL NULL           *)
(*               k = "str"   a text, s its characters                      *)
(*               k = "num"   a number, n in thousandths (8000 = 8.0)       *)
(*               k = "date"  a parsed calendar day, n the day number       *)
(*               k = "fmt"   the text "%.2f" % x with trailing zeros       *)
(*                           stripped, n the value in hundredths           *)
(* A text is a sequence of one-character strings, so that trimming and     *)
(* the "|" join of keys and signatures are computed character by           *)
(* character.  A DataFrame is a sequence of rows; a row is a record over   *)
(* TIMESHEET_COLUMNS.                                                      *)
(***************************************************************************)
EXTENDS Integers, Sequences, FiniteSets, TLC

VARIABLES
    pc,               \* position of the caller / pipeline
    table,            \* employees_check.unioned_table, rows in storage order
    new_records,      \* argument new_records of process_timesheet_changes
    existing_records, \* argument existing_records (the fetched snapshot)
    stats,            \* ProcessingStats returned by process_timesheet_changes
    plan,             \* what the last call computed and did (working, payload, ...)
    first,            \* the first of two calls with the same batch: its outcome
    rule_in,          \* argument df of enforce_hours_status_rule
    rule_out,         \* its result, each row with its index label
    sheet,            \* the workbook: rows of its "Database" and "Employee" sheets
    payload,          \* what load_timesheet_files returned (TimesheetData)
    run,              \* process_timesheets: error_messages, the calls made, raised
    status_out,       \* what process_status_updates returned and did
    mail,             \* employees_check.employee_mail and the EmailStats
    dedup,            \* deduplicate_table_sql: DeduplicationStats, the table before
    batch,            \* deduplicate_dataframe: df, subset, and its results
    pair              \* two records and their build_simple_key / build_signature

callVars == <<new_records, existing_records, stats, plan, first>>
ruleVars == <<rule_in, rule_out>>
pipeVars == <<sheet, payload, run, status_out, mail>>
pureVars == <<batch, pair>>

vars == <<pc, table, new_records, existing_records, stats, plan, first,
          rule_in, rule_out, sheet, payload, run, status_out, mail, dedup,
          batch, pair>>

-----------------------------------------------------------------------------
(* Cell values *)

NULL == [k |-> "null", s |-> <<>>, n |-> 0]
Str(s) == [k |-> "str", s |-> s, n |-> 0]
Num(n) == [k |-> "num", s |-> <<>>, n |-> n]
Whole(n) == [k |-> "int", s |-> <<>>, n |-> n]
Day(d) == [k |-> "date", s |-> <<>>, n |-> d]
Fmt(h) == [k |-> "fmt", s |-> <<>>, n |-> h]

\* The value of a Timestamp, in half days: the day, and the time of day when
\* the cell carries one (midnight otherwise).
Instant(v) == 2 * v.n + (IF v.s = <<>> THEN 0 ELSE 1)

isna(v) == v.k = "null"

\* pd.to_numeric(errors="coerce"): a number stays, anything else (missing, or a
\* text; the texts of the model are not numerals) becomes NaN.
to_numeric(v) == IF v.k = "num" THEN v ELSE IF v.k = "int" THEN Num(v.n) ELSE NULL

\* pd.to_datetime(errors="coerce"): a day stays, anything else becomes NaT.
to_datetime(v) == IF v.k = "date" THEN v ELSE NULL

\* Series.dt.strftime("%Y-%m-%d"): the ISO text of the day (one token per day,
\* which holds no "|" and no blank); NaT stays missing.
strftime(v) == IF v.k = "date" THEN Str(<<ToString(v.n)>>) ELSE NULL

\* str(value) of a cell: a text is itself, a number its repr.  The repr of a
\* float is one token per value (it always holds a point or an exponent); the
\* repr of an int is its digits alone, a different text for the same value
\* (str(8) = "8", str(8.0) = "8.0").
py_str(v) ==
    IF v.k = "str" THEN v.s
    ELSE IF v.k = "int" THEN <<ToString(v.n), "int">>
    ELSE <<ToString(v.n)>>

Whitespace == {" ", "\t", "\n", "\r"}

RECURSIVE lstrip(_)
lstrip(s) == IF s = <<>> THEN s
             ELSE IF Head(s) \in Whitespace THEN lstrip(Tail(s)) ELSE s

RECURSIVE rstrip(_)
rstrip(s) == IF s = <<>> THEN s
             ELSE IF s[Len(s)] \in Whitespace THEN rstrip(SubSeq(s, 1, Len(s) - 1))
             ELSE s

\* str.strip()
strip(s) == rstrip(lstrip(s))

\* Series.astype("string").fillna("").str.strip(), per cell
string_fillna_strip(v) == IF isna(v) THEN <<>> ELSE strip(py_str(v))

RECURSIVE TruePositions(_, _)
TruePositions(mask, n) ==
    IF n = 0 THEN <<>>
    ELSE TruePositions(mask, n - 1) \o (IF mask[n] THEN <<n>> ELSE <<>>)

\* df[mask]: the rows whose mask is True, in order
BoolIndex(df, mask) ==
    LET p == TruePositions(mask, Len(df)) IN [j \in 1..Len(p) |-> df[p[j]]]

Range(q) == {q[i] : i \in 1..Len(q)}

\* the index labels df[mask] keeps
BoolIndexLabels(df, mask) == TruePositions(mask, Len(df))

-----------------------------------------------------------------------------
(* config.py *)

TIMESHEET_COLUMNS ==
    <<"Date", "Employee_Name", "Employee_Role", "Office_Location", "Project_Name",
      "Project_ID", "Working_Hours", "Status", "Interviews", "Database",
      "Database_Converted">>

SIGNATURE_EXTRA_COLUMNS ==
    <<"Employee_Name", "Employee_Role", "Office_Location", "Project_Name",
      "Project_ID", "Working_Hours", "Status", "Interviews", "Database",
      "Database_Converted">>

NUMERIC_COLUMNS == {"Working_Hours", "Working_Hours_Converted", "Interviews",
                    "Database", "Database_Converted"}

TEXT_COLUMNS == {"Employee_Name", "Employee_Role", "Office_Location",
                 "Project_Name", "Project_ID", "Status"}

NON_MEANINGFUL_STATUS ==
    { <<>>, <<"0">>, <<"n">>, <<"n", "o">>, <<"n", "o", "n", "e">>, <<"n", "a">>,
      <<"n", "/", "a">>, <<"-">>, <<"-", "-">> }

STATUS_COLUMNS == <<"Date", "Employee_Name", "Project_ID", "Status">>

STATUS_DEDUP_COLUMNS == <<"Date", "Employee_Name", "Project_ID">>

\* TIMESHEET_DEDUP_COLUMNS lists the same columns as TIMESHEET_COLUMNS
TIMESHEET_DEDUP_COLUMNS == TIMESHEET_COLUMNS

UNKNOWN_TEXT == <<"u", "n", "k", "n", "o", "w", "n">>

-----------------------------------------------------------------------------
(* data_processor.py: keys and signatures *)

\* normalize_text_series, per cell
normalize_text_series(v) == IF isna(v) THEN <<>> ELSE strip(py_str(v))

\* strftime(...).fillna("")
DateText(v) == LET t == strftime(to_datetime(v)) IN IF isna(t) THEN <<>> ELSE t.s

\* build_simple_key, per row
build_simple_key(r) ==
    DateText(r.Date) \o <<"|">> \o normalize_text_series(r.Employee_Name)
                     \o <<"|">> \o normalize_text_series(r.Project_ID)

RECURSIVE JoinBar(_)
JoinBar(parts) ==
    IF Len(parts) = 1 THEN parts[1]
    ELSE parts[1] \o <<"|">> \o JoinBar(Tail(parts))

\* build_signature, per row: "|".join of the date text and the normalized cells
\* of SIGNATURE_EXTRA_COLUMNS
build_signature(r) ==
    JoinBar(<<DateText(r.Date)>> \o
            [c \in 1..Len(SIGNATURE_EXTRA_COLUMNS) |->
                normalize_text_series(r[SIGNATURE_EXTRA_COLUMNS[c]])])

-----------------------------------------------------------------------------
(* data_processor.py: the hours/status rule *)

\* hours > 0 on the coerced column (NaN > 0 is False)
HoursPositive(r) == LET h == to_numeric(r.Working_Hours) IN h.k = "num" /\ h.n > 0

\* work["Status"] after line 93
RuleStatus(r) == string_fillna_strip(r.Status)

\* keep_mask, line 100
keep_mask(df) == [i \in 1..Len(df) |-> HoursPositive(df[i]) \/ RuleStatus(df[i]) /= <<>>]

\* A variant that nulls the hours of every row with a status.
rule_row_nulls_all(r) ==
    LET w == [r EXCEPT !.Status = Str(RuleStatus(r))]
    IN IF RuleStatus(r) /= <<>> THEN [w EXCEPT !.Working_Hours = NULL] ELSE w

\* lines 92-93 and 101: the row as the rule leaves it
rule_row(r) ==
    LET w == [r EXCEPT !.Status = Str(RuleStatus(r))]
    IN IF RuleStatus(r) /= <<>> /\ ~HoursPositive(r)
       THEN [w EXCEPT !.Working_Hours = NULL]
       ELSE w

enforce_hours_status_rule(df) ==
    IF df = <<>> THEN df
    ELSE BoolIndex([i \in 1..Len(df) |-> rule_row(df[i])], keep_mask(df))

-----------------------------------------------------------------------------
(* status_service.py: _clean_status_values, per cell: trim, remove the control
   characters, and empty the non-informative tokens *)

ControlChars == {"\r", "\n", "\t"}

RECURSIVE RemoveChars(_, _)
RemoveChars(s, cs) ==
    IF s = <<>> THEN s
    ELSE (IF Head(s) \in cs THEN <<>> ELSE <<Head(s)>>) \o RemoveChars(Tail(s), cs)

\* str.lower() on the letters of the model
LowerChar(c) ==
    CASE c = "N" -> "n" [] c = "O" -> "o" [] c = "A" -> "a" [] c = "E" -> "e"
      [] c = "K" -> "k" [] c = "P" -> "p" [] c = "Q" -> "q" [] c = "R" -> "r"
      [] c = "X" -> "x" [] OTHER -> c

lower(s) == [i \in 1..Len(s) |-> LowerChar(s[i])]

clean_status_values(v) ==
    LET original == RemoveChars(string_fillna_strip(v), ControlChars)
    IN IF lower(original) \in NON_MEANINGFUL_STATUS THEN <<>> ELSE original

-----------------------------------------------------------------------------
(* data_processor.py: formatting for the store *)

NullMarker == Str(<<"\\N">>)

\* "%.2f" % x: x in thousandths, rounded to hundredths (a tie is exact in
\* binary for the values of the model and goes to the even neighbour)
Round2(n) ==
    LET q == n \div 10
        r == n % 10
    IN IF r > 5 \/ (r = 5 /\ q % 2 = 1) THEN q + 1 ELSE q

\* lines 135-138, per numeric cell
format_numeric(v) ==
    LET x == to_numeric(v) IN IF isna(x) THEN NullMarker ELSE Fmt(Round2(x.n))

\* lines 143-148, per cell of a TEXT_COLUMNS column
format_text(v) ==
    LET t == IF isna(v) THEN NULL ELSE Str(strip(py_str(v)))
    IN IF ~isna(t) /\ t.s /= <<>> THEN t ELSE Str(UNKNOWN_TEXT)

\* format_for_mysql, per cell of column c: the date column as ISO text, the
\* numeric columns as numerals, every other column as text
format_cell(c, v) ==
    IF c = "Date" THEN strftime(to_datetime(v))
    ELSE IF c \in NUMERIC_COLUMNS THEN format_numeric(v)
    ELSE format_text(v)

\* format_for_mysql, per row
format_row(r) == [c \in DOMAIN r |-> format_cell(c, r[c])]

format_for_mysql(df) == [i \in 1..Len(df) |-> format_row(df[i])]

\* A variant that keeps the first row of each identity.
deduplicate_dataframe_keep_first(df, subset) ==
    LET usable == {c \in Range(subset) : df /= <<>> /\ c \in DOMAIN df[1]}
        on(r) == [c \in usable |-> r[c]]
    IN IF df = <<>> \/ usable = {} THEN df
       ELSE BoolIndex(df, [i \in 1..Len(df) |->
                             ~\E j \in 1..(i - 1) : on(df[j]) = on(df[i])])

\* A variant that removes, per call, only the first row that recurs later.
deduplicate_dataframe_drops_one(df, subset) ==
    LET usable == {c \in Range(subset) : df /= <<>> /\ c \in DOMAIN df[1]}
        on(r) == [c \in usable |-> r[c]]
        recurs(i) == \E j \in (i + 1)..Len(df) : on(df[j]) = on(df[i])
    IN IF df = <<>> \/ usable = {} THEN df
       ELSE BoolIndex(df, [i \in 1..Len(df) |->
                             ~(recurs(i) /\ \A h \in 1..(i - 1) : ~recurs(h))])

\* deduplicate_dataframe: drop_duplicates(subset=usable_columns, keep="last")
deduplicate_dataframe(df, subset) ==
    LET usable == {c \in Range(subset) : df /= <<>> /\ c \in DOMAIN df[1]}
        on(r) == [c \in usable |-> r[c]]
    IN IF df = <<>> \/ usable = {} THEN df
       ELSE BoolIndex(df, [i \in 1..Len(df) |->
                             ~\E j \in (i + 1)..Len(df) : on(df[j]) = on(df[i])])

\* Series.astype(str), per cell: a missing value becomes the text "nan"
astype_str(v) == IF isna(v) THEN <<"n", "a", "n">> ELSE py_str(v)

\* prepare_emails_for_update: both columns to text and trimmed (after which
\* dropna finds nothing to drop), rows with an empty cell removed
prepare_emails_for_update(df) ==
    LET working == [i \in 1..Len(df) |->
                      [Employee_Name |-> Str(strip(astype_str(df[i].Employee_Name))),
                       Mail |-> Str(strip(astype_str(df[i].Mail)))]]
    IN IF df = <<>> THEN df
       ELSE BoolIndex(working, [i \in 1..Len(working) |->
                                  /\ working[i].Employee_Name.s /= <<>>
                                  /\ working[i].Mail.s /= <<>>])

\* prepare_timesheet_for_insert: the rule, then the formatting
prepare_timesheet_for_insert(df) ==
    IF df = <<>> THEN df ELSE format_for_mysql(enforce_hours_status_rule(df))

-----------------------------------------------------------------------------
(* The days and the window of the model *)

Days == {1, 2}

\* DateWindow: the run's window is day 1; day 2 lies outside it
window == [start |-> 1, end |-> 1]

-----------------------------------------------------------------------------
(* database.py: the table *)

\* LOAD DATA LOCAL INFILE, per field: \N is NULL, a date text is the day it
\* names, a numeral is the number it denotes, a text is itself
load_field(c, v) ==
    IF isna(v) \/ v = NullMarker THEN NULL
    ELSE IF c = "Date" THEN Day(CHOOSE d \in Days : ToString(d) = v.s[1])
    ELSE IF v.k = "fmt" THEN Num(v.n * 10)
    ELSE v

load_row(r) == [c \in DOMAIN r |-> load_field(c, r[c])]

\* the rows LOAD DATA appends for a payload
load_data(df) == [i \in 1..Len(df) |-> load_row(df[i])]

\* SELECT ... WHERE Date >= :start AND Date <= :end, then to_datetime and
\* dropna(subset=["Date"]); rows come back in storage order
select_window(tbl, w) ==
    SelectSeq(tbl, LAMBDA t : t.Date.k = "date" /\ t.Date.n >= w.start /\ t.Date.n <= w.end)

\* A variant that matches on date and employee alone.
sql_identity_match_any_project(t, k) ==
    /\ t.Date.k = "date" /\ k.Date.k = "date" /\ t.Date.n = k.Date.n
    /\ t.Employee_Name.k = "str" /\ t.Employee_Name = k.Employee_Name

\* WHERE DATE(Date) = :date AND Employee_Name = :employee AND Project_ID = :project
\* (a comparison with NULL matches nothing; the parameters are the cells of the
\* key frame as they are, untrimmed)
sql_identity_match(t, k) ==
    /\ t.Date.k = "date" /\ k.Date.k = "date" /\ t.Date.n = k.Date.n
    /\ t.Employee_Name.k = "str" /\ t.Employee_Name = k.Employee_Name
    /\ t.Project_ID.k = "str" /\ t.Project_ID = k.Project_ID

\* the table after delete_timesheet_records(engine, keys) has committed
delete_rows(tbl, keys) ==
    SelectSeq(tbl, LAMBDA t : ~\E j \in 1..Len(keys) : sql_identity_match(t, keys[j]))

-----------------------------------------------------------------------------
(* Ordering of texts, for sort_values and ORDER BY *)

CharCode(c) ==
    CASE c = "\t" -> 9 [] c = "\n" -> 10 [] c = "\r" -> 13 [] c = " " -> 32
      [] c = "-" -> 45 [] c = "/" -> 47 [] c = "0" -> 48 [] c = "1" -> 49
      [] c = "2" -> 50 [] c = "?" -> 63 [] c = "A" -> 65 [] c = "E" -> 69
      [] c = "K" -> 75 [] c = "N" -> 78 [] c = "O" -> 79 [] c = "P" -> 80
      [] c = "Q" -> 81 [] c = "R" -> 82 [] c = "X" -> 88 [] c = "a" -> 97
      [] c = "d" -> 100 [] c = "e" -> 101 [] c = "g" -> 103 [] c = "i" -> 105
      [] c = "k" -> 107 [] c = "n" -> 110 [] c = "o" -> 111 [] c = "u" -> 117
      [] c = "w" -> 119 [] c = "|" -> 124 [] OTHER -> 0

RECURSIVE LexLess(_, _)
LexLess(a, b) ==
    IF b = <<>> THEN FALSE
    ELSE IF a = <<>> THEN TRUE
    ELSE IF CharCode(Head(a)) < CharCode(Head(b)) THEN TRUE
    ELSE IF CharCode(Head(a)) > CharCode(Head(b)) THEN FALSE
    ELSE LexLess(Tail(a), Tail(b))

-----------------------------------------------------------------------------
(* timesheet_service.py: process_timesheet_changes *)

\* A variant that drops only the rows whose date cannot be parsed.
CleanMask_date_only(new) ==
    [i \in 1..Len(new) |-> ~isna(to_datetime(new[i].Date))]

\* lines 42-44: parse the dates, drop the rows that cannot be keyed
CleanMask(new) ==
    [i \in 1..Len(new) |->
        /\ ~isna(to_datetime(new[i].Date))
        /\ ~isna(new[i].Employee_Name)
        /\ ~isna(new[i].Project_ID)]

CleanRows(new) ==
    BoolIndex([i \in 1..Len(new) |-> [new[i] EXCEPT !.Date = to_datetime(@)]],
              CleanMask(new))

\* lines 51-52 and 57-58: a frame with its simple_key and signature columns
with_keys(df) ==
    [i \in 1..Len(df) |->
        [row |-> df[i], simple_key |-> build_simple_key(df[i]),
         signature |-> build_signature(df[i])]]

\* the order of sort_values(["simple_key", "Date"], ascending, na_position="last")
KeyDateLE(a, b) ==
    \/ LexLess(a.simple_key, b.simple_key)
    \/ /\ a.simple_key = b.simple_key
       /\ \/ isna(b.row.Date)
          \/ ~isna(a.row.Date) /\ Instant(a.row.Date) <= Instant(b.row.Date)

RECURSIVE InsertSorted(_, _)
InsertSorted(s, x) ==
    IF s = <<>> THEN <<x>>
    ELSE IF KeyDateLE(Head(s), x) THEN <<Head(s)>> \o InsertSorted(Tail(s), x)
    ELSE <<x>> \o s

\* A variant that leaves the rows in storage order.
sort_values_storage_order(df) == df

\* sort_values: stable, rows that compare equal keep their order
RECURSIVE sort_values(_)
sort_values(df) ==
    IF df = <<>> THEN <<>>
    ELSE InsertSorted(sort_values(SubSeq(df, 1, Len(df) - 1)), df[Len(df)])

\* drop_duplicates(subset=["simple_key"], keep="last")
drop_duplicates_keep_last(df) ==
    BoolIndex(df, [i \in 1..Len(df) |->
                     ~\E j \in (i + 1)..Len(df) : df[j].simple_key = df[i].simple_key])

\* lines 60-65: one row per key, carrying the signature the key maps to
existing_map(existing) == drop_duplicates_keep_last(sort_values(with_keys(existing)))

\* line 66 / 68: working["simple_key"].map(existing_map), NaN where the key is absent
map_signature(key, emap) ==
    IF \E j \in 1..Len(emap) : emap[j].simple_key = key
    THEN Str(emap[CHOOSE j \in 1..Len(emap) : emap[j].simple_key = key].signature)
    ELSE NULL

\* A variant that marks every row with an existing signature as an update.
to_update_mask_all(working) ==
    [i \in 1..Len(working) |-> ~isna(working[i].existing_signature)]

\* A variant that hands every record to the insert.
to_insert_mask_all(working) == [i \in 1..Len(working) |-> TRUE]

\* line 71
to_insert_mask(working) ==
    [i \in 1..Len(working) |-> isna(working[i].existing_signature)]

\* lines 72-75
to_update_mask(working) ==
    [i \in 1..Len(working) |->
        /\ ~isna(working[i].existing_signature)
        /\ working[i].existing_signature.s /= working[i].signature]

\* to_update[["Date", "Employee_Name", "Project_ID"]].drop_duplicates()
key_frame(rows) ==
    LET k == [i \in 1..Len(rows) |->
                [Date |-> rows[i].Date, Employee_Name |-> rows[i].Employee_Name,
                 Project_ID |-> rows[i].Project_ID]]
    IN BoolIndex(k, [i \in 1..Len(k) |-> ~\E j \in 1..(i - 1) : k[j] = k[i]])

ZeroStats == [inserted |-> 0, updated |-> 0, skipped |-> 0, errors |-> <<>>]

NoPlan ==
    [fetch_ok |-> TRUE, before |-> <<>>, working |-> <<>>, to_insert |-> <<>>,
     to_update |-> <<>>, delete_keys |-> <<>>, payload |-> <<>>,
     deleted |-> FALSE, bulk_called |-> FALSE, loaded |-> FALSE,
     failure |-> "none"]

\* What the store does to the two statements of a call: both succeed, or
\* delete_timesheet_records raises, or bulk_insert_timesheets raises (LOAD DATA
\* and its to_sql fallback both fail).
StoreOutcomes == {"ok", "delete_raises", "insert_raises"}

TimesheetError == "Error inserting or updating timesheet data"

\* A variant of the handler that lets the exception out of the function.
reraise_store_error(res) == [res EXCEPT !.raised = TRUE]

\* lines 119-122, "except Exception as exc": the message joins stats.errors
\* and the function returns
catch_store_error(res) ==
    [res EXCEPT !.stats.errors = Append(@, TimesheetError), !.raised = FALSE]

\* The whole call: what it returns (stats), what it leaves in the table, and
\* what it computed on the way.  Each of the two statements runs in a
\* transaction of its own (engine.begin()), so a raise leaves its own
\* statement uncommitted and nothing else.  The counters are assigned after
\* the statement they count (lines 89, 97 and 112).
process_timesheet_changes(new, existing, tbl, outcome) ==
    LET base == [table |-> tbl, stats |-> ZeroStats,
                 plan |-> [NoPlan EXCEPT !.before = tbl], raised |-> FALSE]
        cleaned == CleanRows(new)
        keyed == with_keys(cleaned)
        emap == IF existing /= <<>> THEN existing_map(existing) ELSE <<>>
        working == [i \in 1..Len(keyed) |->
                      [row |-> keyed[i].row, simple_key |-> keyed[i].simple_key,
                       signature |-> keyed[i].signature,
                       existing_signature |-> map_signature(keyed[i].simple_key, emap)]]
        ins == BoolIndexLabels(working, to_insert_mask(working))
        upd == BoolIndexLabels(working, to_update_mask(working))
        skipped == Len(working) - Len(ins) - Len(upd)
        to_insert == [j \in 1..Len(ins) |-> working[ins[j]].row]
        to_update == [j \in 1..Len(upd) |-> working[upd[j]].row]
        delete_keys == key_frame(to_update)
        classified == [base.plan EXCEPT !.working = working, !.to_insert = ins,
                                        !.to_update = upd]
        payload_df == prepare_timesheet_for_insert(to_insert \o to_update)
        after_delete == IF upd /= <<>> THEN delete_rows(tbl, delete_keys) ELSE tbl
        delete_raises == upd /= <<>> /\ outcome = "delete_raises"
        insert_raises == payload_df /= <<>> /\ outcome = "insert_raises"
        attempted == [classified EXCEPT !.delete_keys = delete_keys]
        handed == [attempted EXCEPT !.payload = payload_df,
                                    !.deleted = (upd /= <<>>),
                                    !.bulk_called = TRUE]
    IN IF new = <<>> THEN base
       ELSE IF cleaned = <<>> THEN
           [base EXCEPT !.stats.errors =
                <<"No valid timesheet rows remained after cleaning.">>]
       ELSE IF ins = <<>> /\ upd = <<>> THEN
           [base EXCEPT !.stats.skipped = skipped, !.plan = classified]
       ELSE IF delete_raises THEN
           catch_store_error(
               [base EXCEPT !.stats.skipped = skipped,
                            !.plan = [attempted EXCEPT !.failure = "delete"]])
       ELSE IF insert_raises THEN
           catch_store_error(
               [base EXCEPT !.table = after_delete,
                            !.stats.skipped = skipped,
                            !.stats.updated = Len(upd),
                            !.stats.inserted = Len(ins),
                            !.plan = [handed EXCEPT !.failure = "insert"]])
       ELSE
           [base EXCEPT !.table = after_delete \o load_data(payload_df),
                        !.stats.skipped = skipped,
                        !.stats.updated = Len(upd),
                        !.stats.inserted = Len(ins),
                        !.plan = [handed EXCEPT !.loaded = TRUE]]

-----------------------------------------------------------------------------
(* status_service.py: process_status_updates *)

ZeroStatusStats == [updated |-> 0, inserted |-> 0, errors |-> <<>>]

NoStatusPlan ==
    [working |-> <<>>, updates |-> <<>>, inserts |-> <<>>, payload |-> <<>>,
     bulk_called |-> FALSE, failure |-> "none"]

StatusError == "Error updating status information"

\* lines 42-50: parse the dates, drop the rows that cannot be keyed, clean the
\* status and drop the rows it leaves empty
StatusWorking(status_df) ==
    LET parsed == [i \in 1..Len(status_df) |->
                      [status_df[i] EXCEPT !.Date = to_datetime(@)]]
        keyed == BoolIndex(parsed, [i \in 1..Len(parsed) |->
                                      /\ ~isna(parsed[i].Date)
                                      /\ ~isna(parsed[i].Employee_Name)
                                      /\ ~isna(parsed[i].Project_ID)])
        cleaned == [i \in 1..Len(keyed) |->
                      [keyed[i] EXCEPT !.Status = Str(clean_status_values(@))]]
    IN BoolIndex(cleaned, [i \in 1..Len(cleaned) |-> cleaned[i].Status.s /= <<>>])

\* the order of sort_values(["Date", "Employee_Name", "Project_ID"])
StatusLE(a, b) ==
    \/ a.Date.n < b.Date.n
    \/ /\ a.Date.n = b.Date.n
       /\ \/ LexLess(py_str(a.Employee_Name), py_str(b.Employee_Name))
          \/ /\ a.Employee_Name = b.Employee_Name
             /\ ~LexLess(py_str(b.Project_ID), py_str(a.Project_ID))

RECURSIVE StatusInsertSorted(_, _)
StatusInsertSorted(s, x) ==
    IF s = <<>> THEN <<x>>
    ELSE IF StatusLE(Head(s), x) THEN <<Head(s)>> \o StatusInsertSorted(Tail(s), x)
    ELSE <<x>> \o s

RECURSIVE status_sort_values(_)
status_sort_values(df) ==
    IF df = <<>> THEN <<>>
    ELSE StatusInsertSorted(status_sort_values(SubSeq(df, 1, Len(df) - 1)), df[Len(df)])

\* lines 61-67: the status of the last snapshot row of each key, "" for NULL
status_map(existing) ==
    LET keyed == [i \in 1..Len(existing) |->
                    [simple_key |-> build_simple_key(existing[i]),
                     Status |-> IF isna(existing[i].Status) THEN Str(<<>>)
                                ELSE existing[i].Status]]
    IN drop_duplicates_keep_last(keyed)

\* lines 68-74: the cleaned existing status of a key, "" when the key is absent
existing_status(key, smap) ==
    IF \E j \in 1..Len(smap) : smap[j].simple_key = key
    THEN clean_status_values(smap[CHOOSE j \in 1..Len(smap) : smap[j].simple_key = key].Status)
    ELSE <<>>

\* A variant that compares the two statuses as they are written.
status_updates_mask_exact(working) ==
    [i \in 1..Len(working) |->
        /\ working[i].existing_status /= <<>>
        /\ working[i].existing_status /= working[i].row.Status.s]

\* lines 77-81
status_updates_mask(working) ==
    [i \in 1..Len(working) |->
        /\ working[i].existing_status /= <<>>
        /\ lower(strip(working[i].existing_status)) /= lower(strip(working[i].row.Status.s))]

\* line 83
status_inserts_mask(working) ==
    [i \in 1..Len(working) |-> working[i].existing_status = <<>>]

\* A variant whose WHERE clause names the day and the employee only.
RECURSIVE update_status_records_by_employee(_, _)
update_status_records_by_employee(tbl, updates) ==
    IF updates = <<>> THEN tbl
    ELSE update_status_records_by_employee(
             [j \in 1..Len(tbl) |->
                 IF /\ tbl[j].Date.k = "date" /\ tbl[j].Date.n = Head(updates).Date.n
                    /\ tbl[j].Employee_Name = Head(updates).Employee_Name
                 THEN [tbl[j] EXCEPT !.Status = Head(updates).Status]
                 ELSE tbl[j]],
             Tail(updates))

\* database.update_status_records: one UPDATE per row of updates, in order,
\* all in one transaction
RECURSIVE update_status_records(_, _)
update_status_records(tbl, updates) ==
    IF updates = <<>> THEN tbl
    ELSE update_status_records(
             [j \in 1..Len(tbl) |->
                 IF sql_identity_match(tbl[j], Head(updates))
                 THEN [tbl[j] EXCEPT !.Status = Head(updates).Status]
                 ELSE tbl[j]],
             Tail(updates))

\* lines 95-107: the status-only rows
insert_payload(inserts) ==
    [i \in 1..Len(inserts) |->
        [Date |-> inserts[i].Date, Employee_Name |-> inserts[i].Employee_Name,
         Employee_Role |-> NULL, Office_Location |-> NULL, Project_Name |-> NULL,
         Project_ID |-> inserts[i].Project_ID, Working_Hours |-> NULL,
         Status |-> inserts[i].Status, Interviews |-> NULL, Database |-> NULL,
         Database_Converted |-> NULL]]

StatusOutcomes == {"ok", "update_raises", "insert_raises"}

\* The whole call.  update_status_records and bulk_insert_timesheets each run
\* in a transaction of their own; a raise is caught (lines 116-118).
process_status_updates(status_df, existing, tbl, outcome) ==
    LET base == [table |-> tbl, stats |-> ZeroStatusStats, plan |-> NoStatusPlan]
        cleaned == StatusWorking(status_df)
        deduped == deduplicate_dataframe(status_sort_values(cleaned),
                                         STATUS_DEDUP_COLUMNS)
        smap == IF existing /= <<>> THEN status_map(existing) ELSE <<>>
        working == [i \in 1..Len(deduped) |->
                      [row |-> deduped[i],
                       simple_key |-> build_simple_key(deduped[i]),
                       existing_status |->
                           existing_status(build_simple_key(deduped[i]), smap)]]
        upd == BoolIndex(working, status_updates_mask(working))
        ins == BoolIndex(working, status_inserts_mask(working))
        updates == [j \in 1..Len(upd) |-> upd[j].row]
        inserts == [j \in 1..Len(ins) |-> ins[j].row]
        bulk == format_for_mysql(enforce_hours_status_rule(insert_payload(inserts)))
        after_update == update_status_records(tbl, updates)
        update_raises == updates /= <<>> /\ outcome = "update_raises"
        insert_raises == bulk /= <<>> /\ outcome = "insert_raises"
        classified == [NoStatusPlan EXCEPT !.working = working, !.updates = updates,
                                           !.inserts = inserts]
        handed == IF inserts = <<>> THEN classified
                  ELSE [classified EXCEPT !.payload = bulk, !.bulk_called = TRUE]
    IN IF status_df = <<>> \/ cleaned = <<>> THEN base
       ELSE IF update_raises THEN
           [base EXCEPT !.stats.errors = <<StatusError>>,
                        !.plan = [classified EXCEPT !.failure = "update"]]
       ELSE IF insert_raises THEN
           [base EXCEPT !.table = after_update,
                        !.stats.updated = Len(updates),
                        !.stats.errors = <<StatusError>>,
                        !.plan = [handed EXCEPT !.failure = "insert"]]
       ELSE
           [base EXCEPT !.table = after_update \o load_data(bulk),
                        !.stats.updated = Len(updates),
                        !.stats.inserted = Len(inserts),
                        !.plan = handed]

-----------------------------------------------------------------------------
(* email_service.py: update_employee_emails over database.fetch_and_update_emails *)

ZeroEmailStats == [saved |-> 0, errors |-> <<>>]

EmailError == "Error updating employee email table"

EmailOutcomes == {"ok", "read_raises", "write_raises"}

\* drop_duplicates(subset=["Employee_Name"], keep="last")
drop_duplicate_names(df) ==
    BoolIndex(df, [i \in 1..Len(df) |->
                     ~\E j \in (i + 1)..Len(df) : df[j].Employee_Name = df[i].Employee_Name])

\* fetch_and_update_emails: a failed read of the mail table counts as an empty
\* table; the combined frame replaces the table
fetch_and_update_emails(mail_tbl, new_emails, outcome) ==
    LET existing == IF outcome = "read_raises" THEN <<>> ELSE mail_tbl
    IN drop_duplicate_names(existing \o new_emails)

\* The whole call; a raise of to_sql is caught (lines 205-207) and is taken to
\* leave the mail table as it was.
update_employee_emails(email_df, mail_tbl, outcome) ==
    LET base == [table |-> mail_tbl, stats |-> ZeroEmailStats]
        working == prepare_emails_for_update(email_df)
        combined == fetch_and_update_emails(mail_tbl, working, outcome)
    IN IF email_df = <<>> \/ working = <<>> THEN base
       ELSE IF outcome = "write_raises" THEN
           [base EXCEPT !.stats.errors = <<EmailError>>]
       ELSE [table |-> combined,
             stats |-> [saved |-> Len(combined), errors |-> <<>>]]

-----------------------------------------------------------------------------
(* excel_reader.py: the workbook becomes timesheet, status and email frames *)

\* lines 175-181: the first three rows with an invalid date are named (row
\* label + 2, labels counting from 0), the rest are counted
InvalidDateErrors(invalid) ==
    [j \in 1..(IF Len(invalid) < 3 THEN Len(invalid) ELSE 3) |->
        "invalid date in row " \o ToString(invalid[j] + 1)]
    \o (IF Len(invalid) > 3
        THEN <<ToString(Len(invalid) - 3) \o " more rows with invalid dates">>
        ELSE <<>>)

\* lines 184-191, per row: numeric columns coerced, missing hours taken from
\* Working_Hours_Converted
ReaderNumeric(r) ==
    LET n == [r EXCEPT !.Working_Hours = to_numeric(@),
                       !.Working_Hours_Converted = to_numeric(@),
                       !.Interviews = to_numeric(@),
                       !.Database = to_numeric(@),
                       !.Database_Converted = to_numeric(@)]
    IN [n EXCEPT !.Working_Hours = IF isna(@) THEN n.Working_Hours_Converted ELSE @]

\* A variant that lets every row of the window into the timesheet frame.
hours_mask_keeps_all(frame) == [i \in 1..Len(frame) |-> TRUE]

\* line 211: timesheet_df["Working_Hours"].fillna(0) > 0
hours_mask(frame) ==
    [i \in 1..Len(frame) |->
        /\ ~isna(frame[i].Working_Hours)
        /\ frame[i].Working_Hours.n > 0]

\* _process_database_sheet
process_database_sheet(df, w) ==
    LET parsed == [i \in 1..Len(df) |-> [df[i] EXCEPT !.Date = to_datetime(@)]]
        invalid_dates == [i \in 1..Len(parsed) |-> isna(parsed[i].Date)]
        errors == InvalidDateErrors(TruePositions(invalid_dates, Len(parsed)))
        valid == BoolIndex(parsed, [i \in 1..Len(parsed) |-> ~invalid_dates[i]])
        numeric == [i \in 1..Len(valid) |-> ReaderNumeric(valid[i])]
        frame == SelectSeq(numeric, LAMBDA r : r.Date.n >= w.start /\ r.Date.n <= w.end)
        status_df == [i \in 1..Len(frame) |->
                        [Date |-> frame[i].Date,
                         Employee_Name |-> frame[i].Employee_Name,
                         Project_ID |-> frame[i].Project_ID,
                         Status |-> Str(clean_status_values(frame[i].Status))]]
        timesheet_df == BoolIndex(frame, hours_mask(frame))
    IN IF df = <<>> THEN
           [timesheets |-> <<>>, statuses |-> <<>>,
            errors |-> <<"empty 'Database' sheet">>]
       ELSE [timesheets |-> [i \in 1..Len(timesheet_df) |->
                                [c \in Range(TIMESHEET_COLUMNS) |-> timesheet_df[i][c]]],
             statuses |-> SelectSeq(status_df, LAMBDA r : r.Status.s /= <<>>),
             errors |-> errors]

\* load_timesheet_files for one folder holding one workbook with a "Database"
\* and an "Employee" sheet
load_timesheet_files(book, w) ==
    LET database == process_database_sheet(book.database, w)
    IN [timesheets |-> database.timesheets, statuses |-> database.statuses,
        emails |-> book.employee, errors |-> database.errors]

-----------------------------------------------------------------------------
(* database.py: deduplicate_table_sql *)

ZeroDedupStats ==
    [total_rows_before |-> 0, total_rows_after |-> 0, duplicates_removed |-> 0,
     errors |-> <<>>]

DedupError == "Error during SQL deduplication"

\* A variant whose scope is every row, window or not.
InScope_every_row(t, mode) == TRUE

\* WHERE Date >= :start AND Date <= :end when a window is given, every row otherwise
InScope(t, mode) ==
    mode = "all" \/ (t.Date.k = "date" /\ t.Date.n >= window.start /\ t.Date.n <= window.end)

\* PARTITION BY DATE(Date), Employee_Name, Project_ID
SamePartition(a, b) ==
    a.Date = b.Date /\ a.Employee_Name = b.Employee_Name /\ a.Project_ID = b.Project_ID

\* COALESCE(Working_Hours, 0) and COALESCE(Status, '')
CoalesceHours(t) == IF isna(t.Working_Hours) THEN 0 ELSE t.Working_Hours.n
CoalesceStatus(t) == IF isna(t.Status) THEN <<>> ELSE t.Status.s

\* ORDER BY Date DESC, COALESCE(Working_Hours, 0) DESC, COALESCE(Status, '') DESC:
\* a comes strictly before b
RankedBefore(a, b) ==
    \/ a.Date.n > b.Date.n
    \/ /\ a.Date.n = b.Date.n
       /\ \/ CoalesceHours(a) > CoalesceHours(b)
          \/ /\ CoalesceHours(a) = CoalesceHours(b)
             /\ LexLess(CoalesceStatus(b), CoalesceStatus(a))

\* ROW_NUMBER() of the row at position j; rows the ORDER BY does not separate
\* are numbered in storage order
RowNumber(tbl, mode, j) ==
    1 + Cardinality({i \in 1..Len(tbl) :
                        /\ i /= j
                        /\ InScope(tbl[i], mode)
                        /\ SamePartition(tbl[i], tbl[j])
                        /\ \/ RankedBefore(tbl[i], tbl[j])
                           \/ ~RankedBefore(tbl[j], tbl[i]) /\ i < j})

\* temp_dedup_keys: Date, Employee_Name, Project_ID and rn of every row in scope
temp_dedup_keys(tbl, mode) ==
    LET scoped == TruePositions([j \in 1..Len(tbl) |-> InScope(tbl[j], mode)], Len(tbl))
    IN [x \in 1..Len(scoped) |->
           [Date |-> tbl[scoped[x]].Date, Employee_Name |-> tbl[scoped[x]].Employee_Name,
            Project_ID |-> tbl[scoped[x]].Project_ID,
            rn |-> RowNumber(tbl, mode, scoped[x])]]

\* A variant whose join has no condition on rn.
dedup_delete_every_key(tbl, mode) ==
    LET temp == temp_dedup_keys(tbl, mode)
    IN SelectSeq(tbl, LAMBDA t : ~\E x \in 1..Len(temp) : sql_identity_match(t, temp[x]))

\* DELETE t FROM table t INNER JOIN temp_dedup_keys d ON DATE(t.Date) = DATE(d.Date)
\* AND t.Employee_Name = d.Employee_Name AND t.Project_ID = d.Project_ID AND d.rn > 1
dedup_delete(tbl, mode) ==
    LET temp == temp_dedup_keys(tbl, mode)
    IN SelectSeq(tbl, LAMBDA t :
           ~\E x \in 1..Len(temp) : sql_identity_match(t, temp[x]) /\ temp[x].rn > 1)

\* What the store does to the statements of a call: all succeed, or the count
\* raises, or the DELETE raises, or the DROP after the DELETE raises.
DedupOutcomes == {"ok", "count_raises", "delete_raises", "drop_raises"}

\* A variant in which what the transaction did before the raise stays.
rollback_keeps_changes(tbl, changed) == changed

\* "with engine.begin() as conn" left by an exception: the transaction is
\* rolled back and the table is as it was when the transaction began
rollback(tbl, changed) == tbl

\* The whole call, in one transaction: a raise rolls the delete back and is
\* caught (lines 404-407); the counters keep what was assigned before it.
deduplicate_table_sql(tbl, mode, outcome) ==
    LET before == Len(SelectSeq(tbl, LAMBDA t : InScope(t, mode)))
        temp == temp_dedup_keys(tbl, mode)
        dupes == Len(SelectSeq(temp, LAMBDA d : d.rn > 1))
        counted == [ZeroDedupStats EXCEPT !.total_rows_before = before]
        found == [counted EXCEPT !.duplicates_removed = dupes]
    IN IF outcome = "count_raises" THEN
           [table |-> rollback(tbl, tbl), failure |-> "count",
            stats |-> [ZeroDedupStats EXCEPT !.errors = <<DedupError>>]]
       ELSE IF before = 0 THEN [table |-> tbl, failure |-> "none", stats |-> counted]
       ELSE IF dupes = 0 THEN
           [table |-> tbl, failure |-> "none",
            stats |-> [counted EXCEPT !.total_rows_after = before]]
       ELSE IF outcome = "delete_raises" THEN
           [table |-> rollback(tbl, tbl), failure |-> "delete",
            stats |-> [found EXCEPT !.errors = <<DedupError>>]]
       ELSE IF outcome = "drop_raises" THEN
           [table |-> rollback(tbl, dedup_delete(tbl, mode)), failure |-> "drop",
            stats |-> [found EXCEPT !.errors = <<DedupError>>]]
       ELSE [table |-> dedup_delete(tbl, mode), failure |-> "none",
             stats |-> [found EXCEPT !.total_rows_after = before - dupes]]

-----------------------------------------------------------------------------
(* Bounds and the inputs of the model *)

\* rows in a batch of new records
MaxBatch == 2
\* rows in the table before the first call
MaxStoreRows == 2
\* rows in an argument of enforce_hours_status_rule
MaxRuleRows == 2
\* rows in the "Database" sheet of the workbook
MaxSheetRows == 2
\* rows in the table before a pipeline run
MaxPipelineStoreRows == 1
\* rows in the table before deduplicate_table_sql
MaxDedupRows == 3

RECURSIVE SeqsUpTo(_, _)
SeqsUpTo(S, n) ==
    IF n = 0 THEN {<<>>}
    ELSE LET shorter == SeqsUpTo(S, n - 1)
         IN shorter \cup {Append(q, x) : q \in {t \in shorter : Len(t) = n - 1}, x \in S}

Row(date, name, role, project, hours, status) ==
    [Date |-> date, Employee_Name |-> name, Employee_Role |-> role,
     Office_Location |-> Str(<<"X">>), Project_Name |-> Str(<<"X">>),
     Project_ID |-> project, Working_Hours |-> hours, Status |-> status,
     Interviews |-> NULL, Database |-> NULL, Database_Converted |-> NULL]

Alice == Str(<<"A">>)
AliceLeadingBlank == Str(<<" ", "A">>)
Role == Str(<<"R">>)
P1 == Str(<<"P">>)
P2 == Str(<<"Q">>)
Ok == Str(<<"O", "k">>)
No == Str(<<"n", "o">>)

\* New records a caller may pass: a complete record, the same identity with
\* other hours, with missing role and status, with a blank before the name,
\* without hours (status "no", missing, or informative), with an unparseable
\* date, and another project.
NewRecordDomain ==
    { Row(Day(1), Alice, Role, P1, Num(8000), Ok),
      Row(Day(1), Alice, Role, P1, Num(6000), Ok),
      Row(Day(1), Alice, NULL, P1, Num(8000), NULL),
      Row(Day(1), AliceLeadingBlank, Role, P1, Num(6000), Ok),
      Row(Day(1), Alice, Role, P1, Num(0), No),
      Row(Day(1), Alice, Role, P1, Num(0), NULL),
      Row(Day(1), Alice, Role, P1, NULL, Ok),
      Row(Str(<<"?">>), Alice, Role, P1, Num(8000), Ok),
      Row(Day(1), Alice, Role, P2, Num(8000), Ok) }

Batches == SeqsUpTo(NewRecordDomain, MaxBatch)

\* Rows the program has written before: the store forms of records it accepts
\* (several rows of one identity included, as two differing rows of one batch
\* leave them)
SeedRecords ==
    { Row(Day(1), Alice, Role, P1, Num(8000), Ok),
      Row(Day(1), Alice, Role, P1, Num(6000), Ok),
      Row(Day(1), Alice, NULL, P1, Num(8000), NULL) }

StoredRowDomain == {load_row(format_row(rule_row(r))) : r \in SeedRecords}

InitTables == SeqsUpTo(StoredRowDomain, MaxStoreRows)

\* Batches as the reader delivers them: keyable records with hours > 0
ReaderBatches ==
    SeqsUpTo({r \in NewRecordDomain : r.Date.k = "date" /\ HoursPositive(r)}, MaxBatch)

\* Rows of a "Database" sheet: hours and status, hours only, status only,
\* hours in the converted column with a non-informative status, and an
\* unreadable date
SheetRow(date, hours, converted, status) ==
    [Date |-> date, Employee_Name |-> Alice, Employee_Role |-> Role,
     Office_Location |-> Str(<<"X">>), Project_Name |-> Str(<<"X">>),
     Project_ID |-> P1, Working_Hours |-> hours,
     Working_Hours_Converted |-> converted, Status |-> status,
     Interviews |-> NULL, Database |-> NULL, Database_Converted |-> NULL]

Pending == Str(<<"P", "e">>)

SheetRowDomain ==
    { SheetRow(Day(1), Num(8000), NULL, Ok),
      SheetRow(Day(1), Num(6000), NULL, NULL),
      SheetRow(Day(1), NULL, NULL, Pending),
      SheetRow(Day(1), NULL, Num(8000), No),
      SheetRow(Str(<<"?">>), Num(8000), NULL, Ok) }

EmployeeSheet == <<[Employee_Name |-> Alice, Mail |-> Str(<<"m">>)]>>

Workbooks ==
    {[database |-> d, employee |-> EmployeeSheet] : d \in SeqsUpTo(SheetRowDomain, MaxSheetRows)}

PipelineTables == SeqsUpTo(StoredRowDomain, MaxPipelineStoreRows)

\* Stored rows for the deduplication: three rows of one identity (hours 8, 6
\* and none), another project, another day
DedupRecords ==
    { Row(Day(1), Alice, Role, P1, Num(8000), Ok),
      Row(Day(1), Alice, Role, P1, Num(6000), Ok),
      Row(Day(1), Alice, Role, P1, NULL, Ok),
      Row(Day(1), Alice, Role, P2, Num(8000), Ok),
      Row(Day(2), Alice, Role, P1, Num(8000), Ok) }

DedupTables ==
    SeqsUpTo({load_row(format_row(rule_row(r))) : r \in DedupRecords}, MaxDedupRows)

\* Arguments of enforce_hours_status_rule
RuleHours == {NULL, Num(0), Num(0 - 1000), Num(8000), Str(<<"?">>)}
RuleStatuses == {NULL, Str(<<>>), Str(<<" ">>), No, Str(<<"N", "o", "\n">>), Ok}
RuleRows == {Row(Day(1), Alice, Role, P1, h, s) : h \in RuleHours, s \in RuleStatuses}
RuleBatches == SeqsUpTo(RuleRows, MaxRuleRows)

\* Rows of a frame given to deduplicate_dataframe
MaxFrameRows == 3

\* rows of the "Employee" frame given to update_employee_emails
MaxEmailBatch == 2
\* rows in the mail table before the call
MaxMailRows == 2

\* Status rows as the reader delivers them (STATUS_COLUMNS)
StatusRow(name, project, status) ==
    [Date |-> Day(1), Employee_Name |-> name, Project_ID |-> project,
     Status |-> status]
FrameRows ==
    {StatusRow(Alice, P1, Ok), StatusRow(Alice, P1, No), StatusRow(Alice, P2, Ok),
     StatusRow(AliceLeadingBlank, P1, Ok), StatusRow(Alice, NULL, Ok),
     StatusRow(Alice, NULL, No)}
Frames == SeqsUpTo(FrameRows, MaxFrameRows)
Subsets ==
    {STATUS_DEDUP_COLUMNS, <<"Employee_Name">>, <<"Mail", "Project_ID">>,
     <<"Mail">>, <<>>}

\* New records of which some cannot be keyed: a complete record, the same
\* with other hours, and records with an unparseable date, without employee,
\* without project id
UnkeyableRecordDomain ==
    { Row(Day(1), Alice, Role, P1, Num(8000), Ok),
      Row(Day(1), Alice, Role, P1, Num(6000), Ok),
      Row(Str(<<"?">>), Alice, Role, P1, Num(8000), Ok),
      Row(Day(1), NULL, Role, P1, Num(8000), Ok),
      Row(Day(1), Alice, Role, NULL, Num(8000), Ok) }

\* Status records of a call of process_status_updates
MaxStatusBatch == 2
\* Rows of the table at a call of process_status_updates
MaxStatusStoreRows == 2

\* New status records: a status, the same in other case with a blank behind,
\* another status, a non-informative one, another project, a blank before the
\* name, a missing name
OkUpper == Str(<<"O", "K", " ">>)
StatusRecordDomain ==
    {StatusRow(Alice, P1, Ok), StatusRow(Alice, P1, OkUpper),
     StatusRow(Alice, P1, Pending), StatusRow(Alice, P1, No),
     StatusRow(Alice, P2, Ok), StatusRow(AliceLeadingBlank, P1, Pending),
     StatusRow(NULL, P1, Ok)}
StatusBatches == SeqsUpTo(StatusRecordDomain, MaxStatusBatch)

\* Stored rows: with hours and a status, a non-informative status or none,
\* another project, and a status-only row
StatusSeedRecords ==
    {Row(Day(1), Alice, Role, P1, Num(8000), Ok),
     Row(Day(1), Alice, Role, P1, Num(8000), No),
     Row(Day(1), Alice, Role, P1, Num(8000), NULL),
     Row(Day(1), Alice, Role, P2, Num(8000), Ok),
     Row(Day(1), Alice, NULL, P1, NULL, Pending)}
StatusTables ==
    SeqsUpTo({load_row(format_row(rule_row(r))) : r \in StatusSeedRecords},
             MaxStatusStoreRows)

\* Two records given to build_simple_key and build_signature: the day with or
\* without a time of day, the name with or without a leading blank, the hours
\* as float, as int, or another value, the status given, missing or empty
Noon(d) == [k |-> "date", s |-> <<"1", "2", "h">>, n |-> d]
PairRecords ==
    {Row(d, name, Role, P1, hours, status) :
        d \in {Day(1), Noon(1), Day(2)}, name \in {Alice, AliceLeadingBlank},
        hours \in {Num(8000), Whole(8000), Num(6000)},
        status \in {Ok, NULL, Str(<<>>)}}
      \cup {Row(Day(1), Str(<<"A", "|", "P">>), Role, P1, Num(8000), Ok),
            Row(Day(1), Alice, Role, Str(<<"P", "|", "P">>), Num(8000), Ok)}

NoRuleOut == [labels |-> <<>>, rows |-> <<>>]
NoFirst == [done |-> FALSE, errors |-> <<>>]
NoSheet == [database |-> <<>>, employee |-> <<>>]
NoPayload == [timesheets |-> <<>>, statuses |-> <<>>, emails |-> <<>>, errors |-> <<>>]
NoRun == [error_messages |-> <<>>, steps |-> <<>>, refreshed |-> <<>>,
          raised |-> FALSE]
NoStatusOut == [stats |-> ZeroStatusStats, plan |-> NoStatusPlan, before |-> <<>>]
NoMail == [table |-> <<>>, stats |-> ZeroEmailStats, before |-> <<>>]
NoBatch == [df |-> <<>>, subset |-> <<>>, once |-> <<>>, twice |-> <<>>]
NoPair == [left |-> <<>>, right |-> <<>>, keys |-> <<>>, signatures |-> <<>>]
NoDedup == [stats |-> ZeroDedupStats, before |-> <<>>, mode |-> "all",
            failure |-> "none"]

\* the variables a specification does not use
CallIdle ==
    /\ new_records = <<>> /\ existing_records = <<>> /\ stats = ZeroStats
    /\ plan = NoPlan /\ first = NoFirst
RuleIdle == rule_in = <<>> /\ rule_out = NoRuleOut
PipeIdle ==
    /\ sheet = NoSheet /\ payload = NoPayload /\ run = NoRun
    /\ status_out = NoStatusOut /\ mail = NoMail
DedupIdle == dedup = NoDedup
PureIdle == batch = NoBatch /\ pair = NoPair

-----------------------------------------------------------------------------
(* A caller of process_timesheet_changes: it fetches the snapshot, calls, and
   later fetches again and calls with the same batch *)

InitCall ==
    /\ pc = "call"
    /\ table \in InitTables
    /\ new_records \in Batches
    /\ existing_records = select_window(table, window)
    /\ stats = ZeroStats
    /\ plan = NoPlan
    /\ first = NoFirst
    /\ RuleIdle /\ PipeIdle /\ DedupIdle /\ PureIdle

ProcessTimesheetChanges(outcome) ==
    /\ pc = "call"
    /\ \E res \in {process_timesheet_changes(new_records, existing_records, table,
                                            outcome)} :
          /\ table' = res.table
          /\ stats' = res.stats
          /\ plan' = [res.plan EXCEPT !.fetch_ok = plan.fetch_ok]
    /\ pc' = "returned"
    /\ UNCHANGED <<pureVars, new_records, existing_records, first, ruleVars, pipeVars, dedup>>

\* A variant that returns the rows of the window whether the read raises or not.
fetch_existing_timesheets_always(tbl, w, read_ok) == select_window(tbl, w)

\* fetch_existing_timesheets(engine, window): the snapshot, or an empty frame
\* when the read raises
fetch_existing_timesheets(tbl, w, read_ok) ==
    IF read_ok THEN select_window(tbl, w) ELSE <<>>

FetchAgain(read_ok) ==
    /\ pc = "returned"
    /\ ~first.done
    /\ first' = [done |-> TRUE, errors |-> stats.errors]
    /\ existing_records' = fetch_existing_timesheets(table, window, read_ok)
    /\ plan' = [plan EXCEPT !.fetch_ok = read_ok]
    /\ pc' = "call"
    /\ UNCHANGED <<pureVars, table, new_records, stats, ruleVars, pipeVars, dedup>>

\* one call
NextCall == \E outcome \in StoreOutcomes : ProcessTimesheetChanges(outcome)

SpecCall == InitCall /\ [][NextCall]_vars

\* a call, a second fetch, and a second call with the same batch
NextTwice ==
    \/ \E outcome \in StoreOutcomes : ProcessTimesheetChanges(outcome)
    \/ \E read_ok \in BOOLEAN : FetchAgain(read_ok)

-----------------------------------------------------------------------------
(* enforce_hours_status_rule applied to a frame *)

InitRule ==
    /\ pc = "rule"
    /\ rule_in \in RuleBatches
    /\ rule_out = NoRuleOut
    /\ table = <<>>
    /\ CallIdle /\ PipeIdle /\ DedupIdle /\ PureIdle

EnforceHoursStatusRule ==
    /\ pc = "rule"
    /\ rule_out' = [labels |-> IF rule_in = <<>> THEN <<>>
                               ELSE BoolIndexLabels(rule_in, keep_mask(rule_in)),
                    rows |-> enforce_hours_status_rule(rule_in)]
    /\ pc' = "ruled"
    /\ UNCHANGED <<pureVars, table, callVars, rule_in, pipeVars, dedup>>

NextRule == EnforceHoursStatusRule

SpecRule == InitRule /\ [][NextRule]_vars

-----------------------------------------------------------------------------
(* A caller that calls twice with a batch as the reader delivers it *)

InitTwice ==
    /\ pc = "call"
    /\ table \in InitTables
    /\ new_records \in ReaderBatches
    /\ existing_records = select_window(table, window)
    /\ stats = ZeroStats
    /\ plan = NoPlan
    /\ first = NoFirst
    /\ RuleIdle /\ PipeIdle /\ DedupIdle /\ PureIdle

SpecTwice == InitTwice /\ [][NextTwice]_vars

-----------------------------------------------------------------------------
(* deduplicate_dataframe applied to a frame, and again to its result *)

InitBatch ==
    /\ pc = "batch"
    /\ batch \in [df : Frames, subset : Subsets, once : {<<>>}, twice : {<<>>}]
    /\ pair = NoPair
    /\ table = <<>>
    /\ CallIdle /\ RuleIdle /\ PipeIdle /\ DedupIdle

DeduplicateDataframe ==
    /\ pc = "batch"
    /\ batch' = [batch EXCEPT !.once = deduplicate_dataframe(batch.df, batch.subset)]
    /\ pc' = "batch_once"
    /\ UNCHANGED <<pair, table, callVars, ruleVars, pipeVars, dedup>>

DeduplicateAgain ==
    /\ pc = "batch_once"
    /\ batch' = [batch EXCEPT !.twice = deduplicate_dataframe(batch.once, batch.subset)]
    /\ pc' = "batch_twice"
    /\ UNCHANGED <<pair, table, callVars, ruleVars, pipeVars, dedup>>

NextBatch == DeduplicateDataframe \/ DeduplicateAgain

SpecBatch == InitBatch /\ [][NextBatch]_vars

-----------------------------------------------------------------------------
(* A caller of process_timesheet_changes over a table whose Date column holds
   times of day, so that rows of one simple key differ in their date value,
   and rows of identities the batch does not name: another project, and a day
   outside the window *)

TimedRowDomain ==
    StoredRowDomain
      \cup {[t EXCEPT !.Date = Noon(t.Date.n)] : t \in StoredRowDomain}
      \cup {load_row(format_row(rule_row(r))) :
               r \in {Row(Day(1), Alice, Role, P2, Num(8000), Ok),
                      Row(Day(2), Alice, Role, P1, Num(8000), Ok)}}

TimedBatchDomain ==
    { Row(Day(1), Alice, Role, P1, Num(8000), Ok),
      Row(Day(1), Alice, Role, P1, Num(6000), Ok) }

InitSnapshot ==
    /\ pc = "call"
    /\ table \in SeqsUpTo(TimedRowDomain, MaxStoreRows)
    /\ new_records \in SeqsUpTo(TimedBatchDomain, MaxBatch)
    /\ existing_records = select_window(table, window)
    /\ stats = ZeroStats
    /\ plan = NoPlan
    /\ first = NoFirst
    /\ RuleIdle /\ PipeIdle /\ DedupIdle /\ PureIdle

SpecSnapshot == InitSnapshot /\ [][NextCall]_vars

-----------------------------------------------------------------------------
(* A caller of update_employee_emails: a frame of the "Employee" sheet and the
   mail table as earlier calls left it, one row per employee *)

Bob == Str(<<"E">>)

EmailRows ==
    {[Employee_Name |-> name, Mail |-> m] :
        name \in {Alice, AliceLeadingBlank, Bob},
        m \in {Str(<<"m">>), Str(<<"n">>), Str(<<" ">>), NULL}}

EmailBatches == SeqsUpTo(EmailRows, MaxEmailBatch)

MailTables ==
    {t \in SeqsUpTo({[Employee_Name |-> name, Mail |-> m] :
                        name \in {Alice, Bob}, m \in {Str(<<"m">>), Str(<<"n">>)}},
                    MaxMailRows) :
        \A a, b \in 1..Len(t) : t[a].Employee_Name = t[b].Employee_Name => a = b}

InitEmail ==
    /\ pc = "email_call"
    /\ table = <<>>
    /\ sheet = NoSheet /\ run = NoRun /\ status_out = NoStatusOut
    /\ payload \in {[NoPayload EXCEPT !.emails = e] : e \in EmailBatches}
    /\ mail \in {[NoMail EXCEPT !.table = t] : t \in MailTables}
    /\ CallIdle /\ RuleIdle /\ DedupIdle /\ PureIdle

UpdateEmployeeEmails(outcome) ==
    /\ pc = "email_call"
    /\ \E res \in {update_employee_emails(payload.emails, mail.table, outcome)} :
          mail' = [table |-> res.table, stats |-> res.stats, before |-> mail.table]
    /\ pc' = "email_returned"
    /\ UNCHANGED <<pureVars, table, callVars, ruleVars, sheet, payload, run, status_out,
                   dedup>>

NextEmail == \E outcome \in EmailOutcomes : UpdateEmployeeEmails(outcome)

SpecEmail == InitEmail /\ [][NextEmail]_vars

-----------------------------------------------------------------------------
(* build_simple_key and build_signature applied to two records *)

InitPair ==
    /\ pc = "pair"
    /\ pair \in [left : PairRecords, right : PairRecords, keys : {<<>>},
                 signatures : {<<>>}]
    /\ batch = NoBatch
    /\ table = <<>>
    /\ CallIdle /\ RuleIdle /\ PipeIdle /\ DedupIdle

BuildKeys ==
    /\ pc = "pair"
    /\ pair' = [pair EXCEPT
                  !.keys = <<build_simple_key(pair.left), build_simple_key(pair.right)>>,
                  !.signatures = <<build_signature(pair.left),
                                   build_signature(pair.right)>>]
    /\ pc' = "paired"
    /\ UNCHANGED <<batch, table, callVars, ruleVars, pipeVars, dedup>>

NextPair == BuildKeys

SpecPair == InitPair /\ [][NextPair]_vars

-----------------------------------------------------------------------------
(* A caller of process_timesheet_changes whose batch holds rows that cannot be
   keyed *)

InitUnkeyable ==
    /\ pc = "call"
    /\ table \in InitTables
    /\ new_records \in SeqsUpTo(UnkeyableRecordDomain, MaxBatch)
    /\ existing_records = select_window(table, window)
    /\ stats = ZeroStats
    /\ plan = NoPlan
    /\ first = NoFirst
    /\ RuleIdle /\ PipeIdle /\ DedupIdle /\ PureIdle

SpecUnkeyable == InitUnkeyable /\ [][NextCall]_vars

-----------------------------------------------------------------------------
(* A caller of process_status_updates: it fetches the snapshot and calls *)

InitStatus ==
    /\ pc = "status_call"
    /\ table \in StatusTables
    /\ payload \in [timesheets : {<<>>}, statuses : StatusBatches, emails : {<<>>},
                    errors : {<<>>}]
    /\ run = [NoRun EXCEPT !.refreshed = select_window(table, window)]
    /\ sheet = NoSheet /\ status_out = NoStatusOut /\ mail = NoMail
    /\ CallIdle /\ RuleIdle /\ DedupIdle /\ PureIdle

ProcessStatusUpdates(outcome) ==
    /\ pc = "status_call"
    /\ \E res \in {process_status_updates(payload.statuses, run.refreshed, table, outcome)} :
          /\ table' = res.table
          /\ status_out' = [stats |-> res.stats, plan |-> res.plan, before |-> table]
    /\ pc' = "status_returned"
    /\ UNCHANGED <<pureVars, callVars, ruleVars, sheet, payload, run, mail, dedup>>

NextStatus == \E outcome \in StatusOutcomes : ProcessStatusUpdates(outcome)

SpecStatus == InitStatus /\ [][NextStatus]_vars

-----------------------------------------------------------------------------
(* database.deduplicate_table_sql called on a table *)

InitDedup ==
    /\ pc = "dedup"
    /\ table \in DedupTables
    /\ dedup = NoDedup
    /\ CallIdle /\ RuleIdle /\ PipeIdle /\ PureIdle

DeduplicateTableSql(mode, outcome) ==
    /\ pc = "dedup"
    /\ \E res \in {deduplicate_table_sql(table, mode, outcome)} :
          /\ table' = res.table
          /\ dedup' = [stats |-> res.stats, before |-> table, mode |-> mode,
                        failure |-> res.failure]
    /\ pc' = "deduped"
    /\ UNCHANGED <<pureVars, callVars, ruleVars, pipeVars>>

NextDedup ==
    \E mode \in {"all", "window"} : \E outcome \in DedupOutcomes :
        DeduplicateTableSql(mode, outcome)

SpecDedup == InitDedup /\ [][NextDedup]_vars

-----------------------------------------------------------------------------
(* pipeline.py: process_timesheets, one step of the model per call it makes *)

ConnectError == "CRITICAL: Database connection failed"
NoDataWarning == "WARNING: No timesheet data found"

Init ==
    /\ pc = "start"
    /\ table \in PipelineTables
    /\ sheet \in Workbooks
    /\ payload = NoPayload
    /\ run = NoRun
    /\ status_out = NoStatusOut
    /\ mail = NoMail
    /\ CallIdle /\ RuleIdle /\ DedupIdle /\ PureIdle

\* lines 59-67
CreateDbEngine(ok) ==
    /\ pc = "start"
    /\ run' = [run EXCEPT !.steps = Append(@, "create_db_engine"),
                          !.error_messages = IF ok THEN @ ELSE <<ConnectError>>]
    /\ pc' = IF ok THEN "load" ELSE "done"
    /\ UNCHANGED <<pureVars, table, callVars, ruleVars, sheet, payload, status_out, mail, dedup>>

\* lines 71-98: load, stop when nothing was found, deduplicate the frames
LoadTimesheetFiles ==
    /\ pc = "load"
    /\ \E loaded \in {load_timesheet_files(sheet, window)} :
       LET nothing == loaded.timesheets = <<>> /\ loaded.statuses = <<>>
       IN /\ payload' =
                 IF nothing THEN loaded
                 ELSE [loaded EXCEPT
                          !.timesheets = deduplicate_dataframe(@, TIMESHEET_DEDUP_COLUMNS),
                          !.statuses = deduplicate_dataframe(@, STATUS_DEDUP_COLUMNS)]
          /\ run' = [run EXCEPT
                        !.steps = Append(@, "load_timesheet_files"),
                        !.error_messages =
                            @ \o loaded.errors
                              \o (IF nothing THEN <<NoDataWarning>> ELSE <<>>)]
          /\ pc' = IF nothing THEN "done" ELSE "fetch"
    /\ UNCHANGED <<pureVars, table, callVars, ruleVars, sheet, status_out, mail, dedup>>

\* line 102
FetchExisting(read_ok) ==
    /\ pc = "fetch"
    /\ existing_records' = fetch_existing_timesheets(table, window, read_ok)
    /\ plan' = [plan EXCEPT !.fetch_ok = read_ok]
    /\ run' = [run EXCEPT !.steps = Append(@, "fetch_existing_timesheets")]
    /\ pc' = "timesheets"
    /\ UNCHANGED <<pureVars, table, new_records, stats, first, ruleVars, sheet, payload,
                   status_out, mail, dedup>>

\* lines 106-111; the call stands outside any try, so what it raises leaves
\* process_timesheets
TimesheetChanges(outcome) ==
    /\ pc = "timesheets"
    /\ \E res \in {process_timesheet_changes(payload.timesheets, existing_records,
                                            table, outcome)} :
          /\ new_records' = payload.timesheets
          /\ table' = res.table
          /\ stats' = res.stats
          /\ plan' = [res.plan EXCEPT !.fetch_ok = plan.fetch_ok]
          /\ run' = [run EXCEPT
                        !.steps = Append(@, "process_timesheet_changes"),
                        !.error_messages = IF res.raised THEN @ ELSE @ \o res.stats.errors,
                        !.raised = res.raised]
          /\ pc' = IF res.raised THEN "done" ELSE "refresh"
    /\ UNCHANGED <<pureVars, existing_records, first, ruleVars, sheet, payload, status_out,
                   mail, dedup>>

\* line 114
RefreshExisting(read_ok) ==
    /\ pc = "refresh"
    /\ run' = [run EXCEPT
                  !.refreshed = fetch_existing_timesheets(table, window, read_ok)]
    /\ pc' = "statuses"
    /\ UNCHANGED <<pureVars, table, callVars, ruleVars, sheet, payload, status_out, mail, dedup>>

\* lines 117-122
StatusUpdates(outcome) ==
    /\ pc = "statuses"
    /\ \E res \in {process_status_updates(payload.statuses, run.refreshed, table, outcome)} :
          /\ table' = res.table
          /\ status_out' = [stats |-> res.stats, plan |-> res.plan, before |-> table]
          /\ run' = [run EXCEPT !.steps = Append(@, "process_status_updates"),
                                !.error_messages = @ \o res.stats.errors]
    /\ pc' = "emails"
    /\ UNCHANGED <<pureVars, callVars, ruleVars, sheet, payload, mail, dedup>>

\* lines 125-126, and the return of line 140
EmployeeEmails(outcome) ==
    /\ pc = "emails"
    /\ \E res \in {update_employee_emails(payload.emails, mail.table, outcome)} :
          /\ mail' = [table |-> res.table, stats |-> res.stats, before |-> mail.table]
          /\ run' = [run EXCEPT !.steps = Append(@, "update_employee_emails"),
                                !.error_messages = @ \o res.stats.errors]
    /\ pc' = "done"
    /\ UNCHANGED <<pureVars, table, callVars, ruleVars, sheet, payload, status_out, dedup>>

Next ==
    \/ \E ok \in BOOLEAN : CreateDbEngine(ok)
    \/ LoadTimesheetFiles
    \/ \E read_ok \in BOOLEAN : FetchExisting(read_ok)
    \/ \E outcome \in StoreOutcomes : TimesheetChanges(outcome)
    \/ \E read_ok \in BOOLEAN : RefreshExisting(read_ok)
    \/ \E outcome \in StatusOutcomes : StatusUpdates(outcome)
    \/ \E outcome \in EmailOutcomes : EmployeeEmails(outcome)

Spec == Init /\ [][Next]_vars

-----------------------------------------------------------------------------
(* pipeline.py: run_full_pipeline, which calls process_timesheets, reports the
   errors it returned and runs the post-process deduplication *)

InitFull ==
    /\ pc = "start"
    /\ table \in InitTables
    /\ sheet \in Workbooks
    /\ payload = NoPayload
    /\ run = NoRun
    /\ status_out = NoStatusOut
    /\ mail = NoMail
    /\ CallIdle /\ RuleIdle /\ DedupIdle /\ PureIdle

\* lines 178-193: the notification is sent when there are errors; a failure to
\* send is caught and logged
SendErrorNotification ==
    /\ pc = "done"
    /\ run' = IF run.error_messages = <<>> THEN run
              ELSE [run EXCEPT !.steps = Append(@, "send_error_notification")]
    /\ pc' = "post"
    /\ UNCHANGED <<pureVars, table, callVars, ruleVars, sheet, payload, status_out, mail, dedup>>

\* line 196 with run_deduplication false
SkipDeduplication ==
    /\ pc = "post"
    /\ pc' = "complete"
    /\ UNCHANGED <<pureVars, table, callVars, ruleVars, pipeVars, dedup>>

\* lines 201-203 and 222-224: the connection for the deduplication fails
DeduplicationConnectFails ==
    /\ pc = "post"
    /\ run' = [run EXCEPT !.steps = Append(@, "create_db_engine")]
    /\ pc' = "complete"
    /\ UNCHANGED <<pureVars, table, callVars, ruleVars, sheet, payload, status_out, mail, dedup>>

\* lines 201-221: a connection of its own, then deduplicate_table_sql over the
\* window
PostProcessDeduplication(outcome) ==
    /\ pc = "post"
    /\ \E res \in {deduplicate_table_sql(table, "window", outcome)} :
          /\ table' = res.table
          /\ dedup' = [stats |-> res.stats, before |-> table, mode |-> "window",
                        failure |-> res.failure]
    /\ run' = [run EXCEPT !.steps = @ \o <<"create_db_engine", "deduplicate_table_sql">>]
    /\ pc' = "complete"
    /\ UNCHANGED <<pureVars, callVars, ruleVars, sheet, payload, status_out, mail>>

NextFull ==
    \/ Next
    \/ SendErrorNotification
    \/ SkipDeduplication
    \/ DeduplicationConnectFails
    \/ \E outcome \in DedupOutcomes : PostProcessDeduplication(outcome)

SpecFull == InitFull /\ [][NextFull]_vars

-----------------------------------------------------------------------------
(* Properties *)

PositiveNumber(v) == v.k = "num" /\ v.n > 0

\* a new record that can be keyed: parseable date, employee and project id present
Keyable(r) == r.Date.k = "date" /\ r.Employee_Name.k /= "null" /\ r.Project_ID.k /= "null"

KeyableRecords == SelectSeq(new_records, Keyable)

\* positions of the snapshot rows with simple key k
SameKey(k) == {j \in 1..Len(existing_records) : build_simple_key(existing_records[j]) = k}

\* the canonical row of a key: the last by (date, position) among them
CanonicalRow(k) ==
    LET later(a, b) ==
            \/ Instant(existing_records[a].Date) < Instant(existing_records[b].Date)
            \/ Instant(existing_records[a].Date) = Instant(existing_records[b].Date) /\ a <= b
    IN existing_records[CHOOSE j \in SameKey(k) : \A a \in SameKey(k) : later(a, j)]

\* C1: every keyable new record is in exactly one of insert, update, skip:
\* insert iff no snapshot row has its simple key, skip iff one has and the
\* canonical signature of the key equals the record's, update iff one has and
\* the signatures differ; skipped counts the skips.
C1_Classification ==
    pc = "returned" /\ KeyableRecords /= <<>> =>
        /\ Len(plan.working) = Len(KeyableRecords)
        /\ Range(plan.to_insert) \cap Range(plan.to_update) = {}
        /\ \A i \in 1..Len(KeyableRecords) :
              LET r == KeyableRecords[i]
                  k == build_simple_key(r)
                  present == SameKey(k) /= {}
                  unchanged == build_signature(CanonicalRow(k)) = build_signature(r)
                  insert == i \in Range(plan.to_insert)
                  update == i \in Range(plan.to_update)
                  skip == ~insert /\ ~update
              IN /\ plan.working[i].row = r
                 /\ insert <=> ~present
                 /\ skip <=> (present /\ unchanged)
                 /\ update <=> (present /\ ~unchanged)
        /\ stats.skipped = Cardinality({i \in 1..Len(KeyableRecords) :
                                i \notin Range(plan.to_insert) \cup Range(plan.to_update)})

\* a call that classified one record update and another skip
C1_Witness ==
    pc = "returned" /\ plan.to_update /= <<>> /\ stats.skipped > 0
                    /\ Len(existing_records) > 1

\* C2: a second call with the same batch, against the snapshot fetched after
\* an error-free first call, classifies nothing as insert or update.
C2_Idempotent ==
    pc = "returned" /\ first.done /\ first.errors = <<>> /\ plan.fetch_ok =>
        /\ plan.to_insert = <<>> /\ plan.to_update = <<>>
        /\ stats.inserted = 0 /\ stats.updated = 0

\* C3: with an update-classified record, either the delete and the insert are
\* both committed, or neither is and one error is reported.
C3_Atomic ==
    pc = "returned" /\ plan.to_update /= <<>> =>
        \/ plan.deleted /\ plan.loaded /\ stats.errors = <<>>
        \/ ~plan.deleted /\ ~plan.loaded /\ table = plan.before /\ Len(stats.errors) = 1

\* the store forms of the batch records with simple key k
NewVersions(k) ==
    {load_row(format_row(rule_row(plan.working[i].row))) :
        i \in {j \in 1..Len(plan.working) : plan.working[j].simple_key = k}}

\* C4: after an error-free call, the table rows with the identity of an
\* update-classified record are new versions from the batch only.
C4_OldRowsReplaced ==
    pc = "returned" /\ stats.errors = <<>> =>
        \A i \in Range(plan.to_update) : \A j \in 1..Len(table) :
            build_simple_key(table[j]) = plan.working[i].simple_key
                => table[j] \in NewVersions(plan.working[i].simple_key)

\* C6: a row is kept iff hours > 0 or its cleaned status is meaningful.
C6_KeepIffMeaningful ==
    pc = "ruled" =>
        \A i \in 1..Len(rule_in) :
            i \in Range(rule_out.labels)
                <=> \/ PositiveNumber(rule_in[i].Working_Hours)
                    \/ clean_status_values(rule_in[i].Status) /= <<>>

\* C7: a kept row with a non-empty status and hours not > 0 has null hours;
\* a kept row with hours > 0 keeps its hours.
C7_HoursNulledOrKept ==
    pc = "ruled" =>
        /\ Len(rule_out.rows) = Len(rule_out.labels)
        /\ \A j \in 1..Len(rule_out.rows) :
              LET given == rule_in[rule_out.labels[j]]
                  kept == rule_out.rows[j]
                  has_status == given.Status.k = "str" /\ given.Status.s /= <<>>
              IN /\ has_status /\ ~PositiveNumber(given.Working_Hours)
                    => kept.Working_Hours = NULL
                 /\ PositiveNumber(given.Working_Hours)
                    => kept.Working_Hours = given.Working_Hours

\* a kept row that came with hours 0 and a status, and one that came with hours
C7_Witness ==
    /\ pc = "ruled"
    /\ \E j \in 1..Len(rule_out.rows) :
          /\ rule_in[rule_out.labels[j]].Working_Hours = Num(0)
          /\ rule_out.rows[j].Working_Hours = NULL
    /\ \E j \in 1..Len(rule_out.rows) : PositiveNumber(rule_out.rows[j].Working_Hours)

\* a row handed to the bulk insert with hours > 0 or a meaningful status
Persistable(r) ==
    \/ r.Working_Hours.k = "fmt" /\ r.Working_Hours.n > 0
    \/ clean_status_values(r.Status) /= <<>>

\* C8: every row handed to the bulk insert, by the timesheet reconciliation or
\* by the status reconciliation, has hours > 0 or a meaningful status.
C8_Persistable ==
    /\ \A j \in 1..Len(plan.payload) : Persistable(plan.payload[j])
    /\ \A j \in 1..Len(status_out.plan.payload) : Persistable(status_out.plan.payload[j])

\* C5: when the delete or the bulk insert of the timesheet reconciliation
\* fails, nothing is raised out of process_timesheets, the message is in the
\* run's error list, the run goes on, and a finished run has called the status
\* reconciliation and the email update.
C5_FailureCaught ==
    plan.failure /= "none" =>
        /\ ~run.raised
        /\ TimesheetError \in Range(run.error_messages)
        /\ pc \in {"refresh", "statuses", "emails", "done"}
        /\ pc = "done" =>
              /\ "process_status_updates" \in Range(run.steps)
              /\ "update_employee_emails" \in Range(run.steps)

\* a finished run whose bulk insert failed after the delete, and whose status
\* reconciliation and email update both did work afterwards
C5_Witness ==
    /\ pc = "done" /\ plan.failure = "insert" /\ plan.deleted
    /\ status_out.plan.working /= <<>>
    /\ mail.stats.saved > 0

\* positions of the rows in scope that share the identity of row j before the call
DedupGroup(j) ==
    {i \in 1..Len(dedup.before) :
        /\ InScope(dedup.before[i], dedup.mode)
        /\ SamePartition(dedup.before[i], dedup.before[j])}

\* C9: after an error-free store-side dedup, of every identity group in scope
\* that had more than one row exactly one row is left, the one ranked first.
C9_RankOneRemains ==
    pc = "deduped" /\ dedup.stats.errors = <<>> =>
        \A j \in 1..Len(dedup.before) :
            InScope(dedup.before[j], dedup.mode) /\ Cardinality(DedupGroup(j)) > 1 =>
                LET left == SelectSeq(table, LAMBDA t : SamePartition(t, dedup.before[j]))
                    top == CHOOSE i \in DedupGroup(j) :
                               RowNumber(dedup.before, dedup.mode, i) = 1
                IN left = <<dedup.before[top]>>

\* C10: after an error-free store-side dedup, duplicates_removed is the number
\* of rows the call deleted and total_rows_after is the number of rows in scope.
C10_CountsActual ==
    pc = "deduped" /\ dedup.stats.errors = <<>> =>
        /\ dedup.stats.duplicates_removed = Len(dedup.before) - Len(table)
        /\ dedup.stats.total_rows_after =
              Len(SelectSeq(table, LAMBDA t : InScope(t, dedup.mode)))
        /\ dedup.stats.total_rows_after =
              dedup.stats.total_rows_before - dedup.stats.duplicates_removed

\* C11: when a step of the store-side dedup fails, the call returns, the
\* failure is a message of the returned error list, and the table is as it was
\* before the call; a call that reports no error did not fail.
C11_DedupAtomic ==
    pc = "deduped" =>
        /\ dedup.failure /= "none" =>
              /\ table = dedup.before
              /\ DedupError \in Range(dedup.stats.errors)
        /\ dedup.failure = "none" => dedup.stats.errors = <<>>

\* a call that found duplicates, ran the DELETE and failed afterwards
C11_Witness ==
    /\ pc = "deduped" /\ dedup.failure = "drop"
    /\ dedup.stats.duplicates_removed > 0
    /\ dedup_delete(dedup.before, dedup.mode) /= dedup.before

\* the identity columns of a call that the frame has, and a row's identity
UsableColumns ==
    {c \in Range(batch.subset) : batch.df /= <<>> /\ c \in DOMAIN batch.df[1]}
IdentityTuple(r) == [c \in UsableColumns |-> r[c]]
LastOccurrence(r) ==
    CHOOSE i \in 1..Len(batch.df) :
        /\ IdentityTuple(batch.df[i]) = IdentityTuple(r)
        /\ \A j \in (i + 1)..Len(batch.df) :
              IdentityTuple(batch.df[j]) /= IdentityTuple(r)

\* C12: with an identity column present, the result of deduplicate_dataframe
\* has one row for each identity tuple of the input and no more, every
\* survivor is the last input row of its tuple, and the survivors are in input
\* order; with no identity column present the input is returned unchanged.
C12_KeepLastPerIdentity ==
    pc \in {"batch_once", "batch_twice"} =>
        IF UsableColumns = {} THEN batch.once = batch.df
        ELSE /\ \A a, b \in 1..Len(batch.once) :
                    a /= b => IdentityTuple(batch.once[a]) /= IdentityTuple(batch.once[b])
             /\ \A i \in 1..Len(batch.df) : \E a \in 1..Len(batch.once) :
                    IdentityTuple(batch.once[a]) = IdentityTuple(batch.df[i])
             /\ \A a \in 1..Len(batch.once) :
                    batch.once[a] = batch.df[LastOccurrence(batch.once[a])]
             /\ \A a, b \in 1..Len(batch.once) :
                    a < b => LastOccurrence(batch.once[a]) < LastOccurrence(batch.once[b])

\* a frame of three rows whose first and last share the identity and differ
\* in status, deduplicated on the identity columns
C12_Witness ==
    /\ pc = "batch_once" /\ batch.subset = STATUS_DEDUP_COLUMNS
    /\ Len(batch.df) = 3 /\ Len(batch.once) = 2
    /\ IdentityTuple(batch.df[1]) = IdentityTuple(batch.df[3])
    /\ batch.df[1] /= batch.df[3]

\* C13: deduplicating the result of deduplicate_dataframe again, on the same
\* columns, returns it unchanged: the second application removes no row.
C13_BatchIdempotent ==
    pc = "batch_twice" =>
        /\ batch.twice = batch.once
        /\ Len(batch.once) - Len(batch.twice) = 0

\* a second application after a first that removed two of three rows
C13_Witness ==
    /\ pc = "batch_twice" /\ UsableColumns /= {}
    /\ Len(batch.df) = 3 /\ Len(batch.once) = 1

\* a field after trimming, an absent value rendered as the empty text; a
\* number is its value
TrimmedField(v) ==
    IF isna(v) THEN Str(<<>>)
    ELSE IF v.k = "str" THEN Str(strip(v.s))
    ELSE Num(v.n)
SameCalendarDate(a, b) == a.k = "date" /\ b.k = "date" /\ a.n = b.n
SameFields(r1, r2) ==
    /\ SameCalendarDate(r1.Date, r2.Date)
    /\ \A c \in Range(SIGNATURE_EXTRA_COLUMNS) :
          TrimmedField(r1[c]) = TrimmedField(r2[c])

\* C14: two records of the same calendar date whose signature fields are all
\* equal after trimming, absent values rendered as empty, have the same
\* signature and the same simple key.
C14_EqualFieldsEqualSignature ==
    pc = "paired" /\ SameFields(pair.left, pair.right) =>
        /\ pair.signatures[1] = pair.signatures[2]
        /\ pair.keys[1] = pair.keys[2]

\* a status is meaningful when something is left of it after trimming and
\* the removal of line breaks and it is not one of the non-informative words
MeaningfulStatus(v) ==
    LET t == RemoveChars(strip(IF isna(v) THEN <<>> ELSE py_str(v)), ControlChars)
    IN lower(t) \notin NON_MEANINGFUL_STATUS
FoldStatus(t) == lower(strip(t))

\* the new status records a call classifies: keyable, with a meaningful
\* status, and not superseded by a later such record of the same identity
StatusKeyable(r) ==
    r.Date.k = "date" /\ ~isna(r.Employee_Name) /\ ~isna(r.Project_ID)
StatusIdentity(r) == <<r.Date, r.Employee_Name, r.Project_ID>>
StatusCandidate(df, i) == StatusKeyable(df[i]) /\ MeaningfulStatus(df[i].Status)
StatusKept(df) ==
    {i \in 1..Len(df) :
        /\ StatusCandidate(df, i)
        /\ ~\E j \in (i + 1)..Len(df) :
              StatusCandidate(df, j) /\ StatusIdentity(df[j]) = StatusIdentity(df[i])}
CleanedStatusRecord(r) ==
    [r EXCEPT !.Status = Str(RemoveChars(strip(py_str(r.Status)), ControlChars))]

\* the existing status of a key: that of the key's last snapshot row when it
\* is meaningful, and none otherwise
SnapshotRowsOf(key) ==
    {j \in 1..Len(run.refreshed) : build_simple_key(run.refreshed[j]) = key}
MeaningfulExisting(key) ==
    /\ SnapshotRowsOf(key) /= {}
    /\ MeaningfulStatus(run.refreshed[CHOOSE j \in SnapshotRowsOf(key) :
                            \A h \in SnapshotRowsOf(key) : h <= j].Status)
ExistingStatusText(key) ==
    run.refreshed[CHOOSE j \in SnapshotRowsOf(key) :
                     \A h \in SnapshotRowsOf(key) : h <= j].Status.s

\* C15: a new status record with a meaningful status is classified insert
\* exactly when its key has no meaningful existing status, update exactly
\* when the key's meaningful existing status differs from the new one
\* ignoring case and surrounding blanks, and skip exactly when the two are
\* equal in that sense; nothing else is classified insert or update.
C15_StatusClassification ==
    pc = "status_returned" =>
        LET df == payload.statuses
            Inserted(i) == CleanedStatusRecord(df[i]) \in Range(status_out.plan.inserts)
            Updated(i) == CleanedStatusRecord(df[i]) \in Range(status_out.plan.updates)
            Same(i) == FoldStatus(ExistingStatusText(build_simple_key(df[i])))
                           = FoldStatus(py_str(df[i].Status))
        IN /\ \A i \in StatusKept(df) :
                 LET key == build_simple_key(df[i])
                 IN /\ Inserted(i) <=> ~MeaningfulExisting(key)
                    /\ Updated(i) <=> MeaningfulExisting(key) /\ ~Same(i)
                    /\ ~Inserted(i) /\ ~Updated(i) <=> MeaningfulExisting(key) /\ Same(i)
           /\ \A r \in Range(status_out.plan.inserts) \cup Range(status_out.plan.updates) :
                 \E i \in StatusKept(df) : CleanedStatusRecord(df[i]) = r
           /\ Len(status_out.plan.inserts) + Len(status_out.plan.updates)
                 <= Cardinality(StatusKept(df))

\* a call with an update and a skip whose two statuses differ in case
C15_Witness ==
    /\ pc = "status_returned"
    /\ Len(status_out.plan.updates) = 1 /\ status_out.plan.inserts = <<>>
    /\ \E i \in StatusKept(payload.statuses) :
          /\ CleanedStatusRecord(payload.statuses[i]) \notin Range(status_out.plan.updates)
          /\ ExistingStatusText(build_simple_key(payload.statuses[i]))
                /= CleanedStatusRecord(payload.statuses[i]).Status.s

\* C16: the status update changes nothing but the Status of the rows whose
\* day, employee and project are those of an updated record: the rows that
\* were in the table are all still there, in place, every other column as it
\* was, and a row of another identity is as it was.
C16_StatusUpdateFrame ==
    pc = "status_returned" /\ status_out.stats.updated > 0 =>
        LET before == status_out.before
            updates == status_out.plan.updates
        IN /\ Len(table) >= Len(before)
           /\ Len(table) - Len(before) <= Len(status_out.plan.payload)
           /\ \A j \in 1..Len(before) :
                 /\ [table[j] EXCEPT !.Status = before[j].Status] = before[j]
                 /\ table[j].Status /= before[j].Status =>
                       \E u \in 1..Len(updates) :
                           /\ updates[u].Date.n = before[j].Date.n
                           /\ updates[u].Employee_Name = before[j].Employee_Name
                           /\ updates[u].Project_ID = before[j].Project_ID
                           /\ updates[u].Status = table[j].Status
                 /\ (\A u \in 1..Len(updates) :
                        \/ updates[u].Date.n /= before[j].Date.n
                        \/ updates[u].Employee_Name /= before[j].Employee_Name
                        \/ updates[u].Project_ID /= before[j].Project_ID)
                       => table[j] = before[j]

\* an update that changed the status of one stored row and left a stored row
\* of the same employee and another project as it was
C16_Witness ==
    /\ pc = "status_returned" /\ status_out.stats.updated = 1
    /\ Len(status_out.before) = 2
    /\ \E j, h \in 1..2 :
          /\ table[j].Status /= status_out.before[j].Status
          /\ table[h] = status_out.before[h]
          /\ table[h].Project_ID /= table[j].Project_ID

\* the run began with a failed connection
ConnectionFailedAtStart ==
    run.error_messages /= <<>> /\ run.error_messages[1] = ConnectError

\* C17: when the connection cannot be established at the start of a run, the
\* failure is reported and the run issues no fetch of existing rows, no delete,
\* no insert, no status update and no write of the email directory: none of
\* the reconciling calls is made, no DELETE is executed, and the table stays
\* as it is.
C17_ConnectionFailureFatal ==
    ConnectionFailedAtStart =>
        /\ run.error_messages = <<ConnectError>>
        /\ pc \in {"post", "complete"} => "send_error_notification" \in Range(run.steps)
        /\ Range(run.steps) \cap {"fetch_existing_timesheets", "process_timesheet_changes",
                                   "process_status_updates", "update_employee_emails"} = {}
        /\ plan = NoPlan /\ status_out = NoStatusOut /\ mail = NoMail
        /\ dedup.stats.duplicates_removed = 0
        /\ dedup /= NoDedup => table = dedup.before

\* C18: a new row with an unparseable date or without employee or project id
\* is never inserted and never causes a delete: what is handed to the insert
\* and what the table gains comes from keyable records, and what the table
\* loses has the identity of a keyable record.  A non-empty batch with no
\* keyable row gives one error message, zero counts and no store mutation.
C18_UnkeyableDropped ==
    pc = "returned" =>
        /\ \A j \in 1..Len(plan.payload) : \E i \in 1..Len(KeyableRecords) :
               plan.payload[j] = format_row(rule_row(KeyableRecords[i]))
        /\ \A t \in Range(table) :
               \/ t \in Range(plan.before)
               \/ \E i \in 1..Len(KeyableRecords) :
                     t = load_row(format_row(rule_row(KeyableRecords[i])))
        /\ \A b \in Range(plan.before) :
               b \notin Range(table) =>
                   \E i \in 1..Len(KeyableRecords) : sql_identity_match(b, KeyableRecords[i])
        /\ new_records /= <<>> /\ KeyableRecords = <<>> =>
               /\ Len(stats.errors) = 1
               /\ stats.inserted = 0 /\ stats.updated = 0 /\ stats.skipped = 0
               /\ table = plan.before
               /\ ~plan.deleted /\ ~plan.bulk_called /\ plan.payload = <<>>

\* a batch of a record without project id and a changed record, the latter
\* deleted and inserted
C18_Witness ==
    /\ pc = "returned" /\ Len(new_records) = 2 /\ Len(KeyableRecords) = 1
    /\ \E i \in 1..2 : new_records[i].Date.k = "date" /\ isna(new_records[i].Project_ID)
    /\ plan.deleted /\ plan.loaded /\ stats.updated = 1

\* a keyable record is skip when its key has a snapshot row and the key's
\* canonical signature is the record's
SkipRecord(r) ==
    /\ SameKey(build_simple_key(r)) /= {}
    /\ build_signature(CanonicalRow(build_simple_key(r))) = build_signature(r)

\* C19: a skip-classified record is never persisted: every row of the insert
\* payload is the store form of a record that is not skip, and when every
\* keyable record is skip the call issues neither the delete nor the insert and
\* the table is as before the call.
C19_SkipNotPersisted ==
    pc = "returned" /\ KeyableRecords /= <<>> =>
        /\ \A j \in 1..Len(plan.payload) : \E i \in 1..Len(KeyableRecords) :
               /\ ~SkipRecord(KeyableRecords[i])
               /\ plan.payload[j] = format_row(rule_row(KeyableRecords[i]))
        /\ Len(plan.payload)
               <= Cardinality({i \in 1..Len(KeyableRecords) : ~SkipRecord(KeyableRecords[i])})
        /\ (\A i \in 1..Len(KeyableRecords) : SkipRecord(KeyableRecords[i])) =>
               /\ table = plan.before
               /\ ~plan.deleted /\ ~plan.bulk_called
               /\ plan.delete_keys = <<>> /\ plan.payload = <<>>
               /\ stats = [ZeroStats EXCEPT !.skipped = Len(KeyableRecords)]

\* a batch of two keyable records, both skip, against a non-empty table
C19_Witness ==
    /\ pc = "returned" /\ Len(KeyableRecords) = 2 /\ table /= <<>>
    /\ \A i \in 1..2 : SkipRecord(KeyableRecords[i])
    /\ stats.skipped = 2

\* C20 as stated: the rows that are keyed, signed and classified have been
\* through the hours/status rule, that is, each of them is a row as the rule
\* returns it.
C20_NormalizedBeforeClassified ==
    \A i \in 1..Len(plan.working) :
        enforce_hours_status_rule(<<plan.working[i].row>>) = <<plan.working[i].row>>

\* C20: in a pipeline run every row that is keyed, signed and classified has
\* hours > 0, so the hours/status rule, applied after the classification to
\* the rows of insert and update, keeps every one of them: the payload handed
\* to the bulk insert has one persistable row for each record classified
\* insert or update, and no more records are counted than were classified.
C20_ClassifiedPersistable ==
    plan.working /= <<>> =>
        /\ \A i \in 1..Len(plan.working) :
               /\ HoursPositive(plan.working[i].row)
               /\ keep_mask(<<plan.working[i].row>>) = <<TRUE>>
        /\ stats.inserted + stats.updated <= Len(plan.to_insert) + Len(plan.to_update)
        /\ plan.bulk_called =>
               /\ Len(plan.payload) = Len(plan.to_insert) + Len(plan.to_update)
               /\ \A j \in 1..Len(plan.payload) : Persistable(plan.payload[j])
        /\ plan.loaded => stats.inserted + stats.updated = Len(plan.payload)

\* a run that classified two rows, one of them without a status (not a row as
\* the rule returns it), and wrote both
C20_Witness ==
    /\ plan.loaded /\ Len(plan.working) = 2 /\ Len(plan.payload) = 2
    /\ \E i \in 1..2 : isna(plan.working[i].row.Status)

\* at most one row per (calendar date, employee, project id)
UniqueIdentity(tbl) ==
    \A a, b \in 1..Len(tbl) :
        /\ tbl[a].Date.n = tbl[b].Date.n
        /\ tbl[a].Employee_Name = tbl[b].Employee_Name
        /\ tbl[a].Project_ID = tbl[b].Project_ID
        => a = b

\* C21: when the table holds at most one row per identity before a run, it
\* still does after the timesheet and the status reconciliation of the run
\* have completed without error, both snapshots having been read.
C21_IdentityUnique ==
    /\ pc = "done" /\ run.error_messages = <<>>
    /\ "process_status_updates" \in Range(run.steps)
    /\ plan.fetch_ok /\ existing_records = select_window(plan.before, window)
    /\ run.refreshed = select_window(status_out.before, window)
    /\ UniqueIdentity(plan.before)
    => UniqueIdentity(table)

\* positions of the snapshot rows of key k, none of which sorts after row j
\* (a greater date value, or the same date value and a later position)
SortsLast(k, j) ==
    /\ j \in SameKey(k)
    /\ \A a \in SameKey(k) :
          \/ Instant(existing_records[a].Date) < Instant(existing_records[j].Date)
          \/ Instant(existing_records[a].Date) = Instant(existing_records[j].Date) /\ a <= j

\* C22: when the snapshot holds several rows of one simple key, a new record
\* of that key is compared against the signature of the row that sorts last
\* by (simple key, date), the one with the greatest date value, and no other
\* signature of the key is used.
C22_LastByDateSignature ==
    pc = "returned" =>
        \A i \in 1..Len(plan.working) :
            LET k == plan.working[i].simple_key
            IN SameKey(k) /= {} =>
                 /\ \E j \in SameKey(k) :
                       /\ SortsLast(k, j)
                       /\ plan.working[i].existing_signature
                            = Str(build_signature(existing_records[j]))
                       /\ \A a \in SameKey(k) :
                             Instant(existing_records[a].Date)
                                <= Instant(existing_records[j].Date)
                 /\ \A h \in 1..Len(plan.working) :
                       plan.working[h].simple_key = k
                          => plan.working[h].existing_signature
                                = plan.working[i].existing_signature

\* a new record skipped because it equals the later row of its key, which is
\* stored before an earlier row that differs from it
C22_Witness ==
    /\ pc = "returned" /\ Len(existing_records) = 2 /\ Len(plan.working) = 1
    /\ SameKey(plan.working[1].simple_key) = {1, 2}
    /\ Instant(existing_records[1].Date) > Instant(existing_records[2].Date)
    /\ build_signature(existing_records[1]) /= build_signature(existing_records[2])
    /\ plan.working[1].existing_signature = Str(plan.working[1].signature)
    /\ stats.skipped = 1

\* a row whose date lies outside [window.start, window.end]
OutsideWindow(t) == ~(t.Date.k = "date" /\ t.Date.n >= window.start /\ t.Date.n <= window.end)

\* the rows of a table inside the window, and the identities among them
InsideRows(tbl) == SelectSeq(tbl, LAMBDA t : ~OutsideWindow(t))
InsideIdentities(tbl) ==
    {<<t.Date.n, t.Employee_Name, t.Project_ID>> : t \in Range(InsideRows(tbl))}

\* C23: a window-scoped store-side dedup leaves every row whose date lies
\* outside the window as it was, and neither rows-before nor
\* duplicates_removed counts such a row.
C23_WindowFrame ==
    pc = "deduped" /\ dedup.mode = "window" =>
        /\ SelectSeq(table, OutsideWindow) = SelectSeq(dedup.before, OutsideWindow)
        /\ dedup.stats.total_rows_before \in {0, Len(InsideRows(dedup.before))}
        /\ dedup.stats.duplicates_removed
              \in {0, Len(InsideRows(dedup.before))
                        - Cardinality(InsideIdentities(dedup.before))}

\* a windowed call that removed the rows of an identity inside the window
\* from a table that holds a row of the same employee and project outside it
C23_Witness ==
    /\ pc = "deduped" /\ dedup.mode = "window" /\ dedup.stats.errors = <<>>
    /\ dedup.stats.duplicates_removed > 0 /\ Len(table) < Len(dedup.before)
    /\ \E a, b \in 1..Len(dedup.before) :
          /\ OutsideWindow(dedup.before[a]) /\ ~OutsideWindow(dedup.before[b])
          /\ dedup.before[a].Employee_Name = dedup.before[b].Employee_Name
          /\ dedup.before[a].Project_ID = dedup.before[b].Project_ID
          /\ dedup.before[b] \notin Range(table)

\* a table row and a record of the same (calendar date, employee, project id)
SameIdentity(t, r) ==
    /\ t.Date.k = "date" /\ r.Date.k = "date" /\ t.Date.n = r.Date.n
    /\ t.Employee_Name = r.Employee_Name
    /\ t.Project_ID = r.Project_ID

\* a table row whose identity is that of no record classified update
NotUpdated(t) ==
    \A j \in 1..Len(plan.to_update) : ~SameIdentity(t, plan.working[plan.to_update[j]].row)

IsPrefix(a, b) == Len(a) <= Len(b) /\ SubSeq(b, 1, Len(a)) = a

\* C24: a call deletes or alters no table row whose identity differs from that
\* of every record classified update: those rows are in the table after the
\* call as before it, and a row whose identity no new record has stays.
C24_OtherIdentitiesKept ==
    pc = "returned" =>
        /\ IsPrefix(SelectSeq(plan.before, NotUpdated), SelectSeq(table, NotUpdated))
        /\ \A a \in 1..Len(plan.before) :
              (\A i \in 1..Len(new_records) : ~SameIdentity(plan.before[a], new_records[i]))
                 => plan.before[a] \in Range(table)

\* a call that deleted the row of an updated identity from a table that also
\* held a row of another project, which is still there
C24_Witness ==
    /\ pc = "returned" /\ plan.loaded /\ plan.deleted /\ Len(plan.before) = 2
    /\ \E a, b \in 1..2 :
          /\ ~NotUpdated(plan.before[a]) /\ plan.before[a] \notin Range(table)
          /\ NotUpdated(plan.before[b]) /\ plan.before[b] \in Range(table)
          /\ plan.before[b].Date.n = plan.before[a].Date.n

\* the rows of the table before the call with the identity of the row at j
IdentityGroup(j) ==
    {i \in 1..Len(dedup.before) : SameIdentity(dedup.before[i], dedup.before[j])}

\* C25: the store-side dedup, windowed or over the whole table, deletes no
\* row that is the only row of its (calendar date, employee, project id).
C25_SingletonKept ==
    pc = "deduped" =>
        \A j \in 1..Len(dedup.before) :
            IdentityGroup(j) = {j} => dedup.before[j] \in Range(table)

\* a call that deleted duplicates of one identity from a table in which
\* another identity of the same day has one row, which is still there
C25_Witness ==
    /\ pc = "deduped" /\ dedup.stats.errors = <<>> /\ Len(table) < Len(dedup.before)
    /\ \E j \in 1..Len(dedup.before) :
          /\ IdentityGroup(j) = {j} /\ ~OutsideWindow(dedup.before[j])
          /\ dedup.before[j] \in Range(table)

\* the number of rows a call added to the table
RowsAdded == IF plan.loaded THEN Len(plan.payload) ELSE 0

\* C26: after a call, inserted + updated does not exceed the number of rows
\* the call added to the table, also when the bulk insert fails or the
\* hours/status rule removes rows from the payload.
C26_CountsWithinAdded ==
    pc = "returned" => stats.inserted + stats.updated <= RowsAdded

\* the records with hours > 0 and a meaningful status that the timesheet
\* reconciliation of the run inserted or re-inserted
InsertedWithStatus ==
    {plan.working[i].row :
        i \in {j \in Range(plan.to_insert) \cup Range(plan.to_update) :
                 /\ plan.loaded
                 /\ HoursPositive(plan.working[j].row)
                 /\ MeaningfulStatus(plan.working[j].row.Status)}}

\* the status record w of the status reconciliation is that of record r
StatusRecordOf(w, r) ==
    /\ w.simple_key = build_simple_key(r)
    /\ FoldStatus(w.row.Status.s) = FoldStatus(clean_status_values(r.Status))

\* C27: the status reconciliation of a run reads its snapshot after the
\* writes of the timesheet reconciliation, so the status record of a record
\* with hours > 0 and a meaningful status that was inserted or re-inserted in
\* the run is classified skip and no status-only row is inserted for it.
C27_InsertedStatusSkipped ==
    /\ "process_status_updates" \in Range(run.steps)
    /\ run.refreshed = select_window(status_out.before, window)
    => \A r \in InsertedWithStatus :
          \A i \in 1..Len(status_out.plan.working) :
              StatusRecordOf(status_out.plan.working[i], r) =>
                  /\ status_out.plan.working[i].row \notin Range(status_out.plan.inserts)
                  /\ status_out.plan.working[i].row \notin Range(status_out.plan.updates)

\* C28: when the read of the existing snapshot fails, the snapshot is empty
\* and the error list of the run gains nothing; the reconciliation that
\* follows classifies every keyable new record as insert and none as update
\* or skip, also for identities the table holds.
C28_FailedReadAllInserts ==
    /\ pc = "timesheets" /\ ~plan.fetch_ok =>
          existing_records = <<>> /\ run.error_messages = payload.errors
    /\ "process_timesheet_changes" \in Range(run.steps) /\ ~plan.fetch_ok =>
          /\ plan.to_update = <<>> /\ stats.updated = 0 /\ stats.skipped = 0
          /\ Len(plan.to_insert) = Len(KeyableRecords)
          /\ \A i \in 1..Len(plan.working) : isna(plan.working[i].existing_signature)

\* a failed read before a reconciliation whose record has the simple key and
\* the signature of a row of the table, and is inserted
C28_Witness ==
    /\ "process_timesheet_changes" \in Range(run.steps) /\ ~plan.fetch_ok
    /\ run.error_messages = <<>> /\ plan.loaded /\ Len(plan.to_insert) = 1
    /\ \E t \in Range(plan.before) :
          /\ build_simple_key(t) = plan.working[1].simple_key
          /\ build_signature(t) = plan.working[1].signature

\* C29: two records have the same simple key only when their calendar dates,
\* trimmed employee names and trimmed project ids are equal, also when a name
\* or a project id holds the separator "|".
C29_KeyInjective ==
    pc = "paired" /\ pair.keys[1] = pair.keys[2] =>
        /\ SameCalendarDate(pair.left.Date, pair.right.Date)
        /\ TrimmedField(pair.left.Employee_Name) = TrimmedField(pair.right.Employee_Name)
        /\ TrimmedField(pair.left.Project_ID) = TrimmedField(pair.right.Project_ID)

\* the rows of the new batch that name an employee and a mail, trimmed
TrimmedMailRow(r) ==
    [Employee_Name |-> Str(strip(astype_str(r.Employee_Name))),
     Mail |-> Str(strip(astype_str(r.Mail)))]
NewMailRows ==
    SelectSeq([i \in 1..Len(payload.emails) |-> TrimmedMailRow(payload.emails[i])],
              LAMBDA r : r.Employee_Name.s /= <<>> /\ r.Mail.s /= <<>>)

\* C30: after a successful update of the email directory the mail table holds
\* at most one row per employee name, an employee of the new batch has the
\* mail of their last row in the batch, and an employee the batch does not
\* name keeps the mail stored before.
C30_MailDirectory ==
    pc = "email_returned" /\ mail.stats.errors = <<>> /\ NewMailRows /= <<>> =>
        /\ \A a, b \in 1..Len(mail.table) :
              mail.table[a].Employee_Name = mail.table[b].Employee_Name => a = b
        /\ \A i \in 1..Len(NewMailRows) :
              (\A j \in (i + 1)..Len(NewMailRows) :
                   NewMailRows[j].Employee_Name /= NewMailRows[i].Employee_Name)
                 => NewMailRows[i] \in Range(mail.table)
        /\ \A a \in 1..Len(mail.before) :
              (\A i \in 1..Len(NewMailRows) :
                   NewMailRows[i].Employee_Name /= mail.before[a].Employee_Name)
                 => mail.before[a] \in Range(mail.table)

====
